---- MODULE Spec2Model ----
(***************************************************************************)
(* Model of the Discrete plugin (src/src/settings.ts): the predicate       *)
(* evaluator evaluateFilter, the visibility policy shouldFileBeVisible and *)
(* the visible-set loop of applyFiltersToExplorer, over JavaScript values  *)
(* with the coercions the code applies (String, Number, toLowerCase,       *)
(* includes, Array.isArray, every/some).                                   *)
(*                                                                         *)
(* A JavaScript string is the sequence of its code units.  A printable     *)
(* ASCII code unit but the grave accent is written as itself, tab, line    *)
(* feed, form feed and carriage return as "\t", "\n", "\f" and "\r", and   *)
(* any other code unit as "U+" and its four hexadecimal digits ("U+00C9"   *)
(* is one code unit).                                                      *)
(* A JavaScript value is a record with a tag t and one payload field per   *)
(* shape.  Numbers are integers; the result of Number(...) is an integer   *)
(* or NaN.  Texts with a fraction, an exponent, a radix prefix or the word *)
(* Infinity are outside the input sets, and so are letters (general        *)
(* category L) past U+052F, surrogate code units, and values of a          *)
(* frontmatter's own keys that are objects other than arrays.  A           *)
(* frontmatter object inherits the properties of Object.prototype.         *)
(***************************************************************************)
EXTENDS Integers, Sequences, FiniteSets, TLC

(***************************************************************************)
(* Bounds of the input sets.                                               *)
(***************************************************************************)
MaxNum == 2
MaxArrayLen == 2
MaxFilters == 2
MaxRules == 2
MaxPending == 1
MaxEvents == 4

(***************************************************************************)
(* JavaScript values.                                                      *)
(***************************************************************************)
Str(s) == [t |-> "string", s |-> s, n |-> 0, b |-> FALSE, a |-> <<>>]
Num(n) == [t |-> "number", s |-> <<>>, n |-> n, b |-> FALSE, a |-> <<>>]
Bool(b) == [t |-> "boolean", s |-> <<>>, n |-> 0, b |-> b, a |-> <<>>]
Arr(a) == [t |-> "array", s |-> <<>>, n |-> 0, b |-> FALSE, a |-> a]
Null == [t |-> "null", s |-> <<>>, n |-> 0, b |-> FALSE, a |-> <<>>]
Undefined == [t |-> "undefined", s |-> <<>>, n |-> 0, b |-> FALSE, a |-> <<>>]
\* A built-in function, s its name, and the object Object.prototype.
Fn(name) == [t |-> "function", s |-> name, n |-> 0, b |-> FALSE, a |-> <<>>]
ObjectPrototypeObject == [t |-> "object", s |-> <<>>, n |-> 0, b |-> FALSE, a |-> <<>>]

\* The result of Number(...): an integer, or NaN.
NumberOf(n) == [nan |-> FALSE, n |-> n]
NaN == [nan |-> TRUE, n |-> 0]

\* a === b on two results of Number(...): NaN equals nothing.
StrictEqualsNumber(x, y) == ~x.nan /\ ~y.nan /\ x.n = y.n
\* a > b and a < b on two results of Number(...): false when either is NaN.
GreaterNumber(x, y) == ~x.nan /\ ~y.nan /\ x.n > y.n
LessNumber(x, y) == ~x.nan /\ ~y.nan /\ x.n < y.n

(***************************************************************************)
(* String.prototype.toLowerCase and String.prototype.includes.             *)
(*                                                                         *)
(* toLowerCase maps every code unit that has a lower-case form to it,      *)
(* whatever the locale.  U+0130 becomes two code units, and U+03A3 becomes *)
(* U+03C2 at the end of a word and U+03C3 elsewhere.  UpperChars and       *)
(* LowerChars list, position by position, the code units that change and   *)
(* what they change to: the letters up to U+052F, and the code units that  *)
(* are not letters (U+2160 to U+216F, U+24B6 to U+24CF).  The tables are   *)
(* those of Unicode 17.                                                    *)
(***************************************************************************)
UpperChars ==
  << "A", "B", "C", "D", "E", "F", "G", "H", "I", "J", "K", "L", "M", "N",
    "O", "P", "Q", "R", "S", "T", "U", "V", "W", "X", "Y", "Z", "U+00C0",
    "U+00C1", "U+00C2", "U+00C3", "U+00C4", "U+00C5", "U+00C6", "U+00C7",
    "U+00C8", "U+00C9", "U+00CA", "U+00CB", "U+00CC", "U+00CD", "U+00CE",
    "U+00CF", "U+00D0", "U+00D1", "U+00D2", "U+00D3", "U+00D4", "U+00D5",
    "U+00D6", "U+00D8", "U+00D9", "U+00DA", "U+00DB", "U+00DC", "U+00DD",
    "U+00DE", "U+0100", "U+0102", "U+0104", "U+0106", "U+0108", "U+010A",
    "U+010C", "U+010E", "U+0110", "U+0112", "U+0114", "U+0116", "U+0118",
    "U+011A", "U+011C", "U+011E", "U+0120", "U+0122", "U+0124", "U+0126",
    "U+0128", "U+012A", "U+012C", "U+012E", "U+0132", "U+0134", "U+0136",
    "U+0139", "U+013B", "U+013D", "U+013F", "U+0141", "U+0143", "U+0145",
    "U+0147", "U+014A", "U+014C", "U+014E", "U+0150", "U+0152", "U+0154",
    "U+0156", "U+0158", "U+015A", "U+015C", "U+015E", "U+0160", "U+0162",
    "U+0164", "U+0166", "U+0168", "U+016A", "U+016C", "U+016E", "U+0170",
    "U+0172", "U+0174", "U+0176", "U+0178", "U+0179", "U+017B", "U+017D",
    "U+0181", "U+0182", "U+0184", "U+0186", "U+0187", "U+0189", "U+018A",
    "U+018B", "U+018E", "U+018F", "U+0190", "U+0191", "U+0193", "U+0194",
    "U+0196", "U+0197", "U+0198", "U+019C", "U+019D", "U+019F", "U+01A0",
    "U+01A2", "U+01A4", "U+01A6", "U+01A7", "U+01A9", "U+01AC", "U+01AE",
    "U+01AF", "U+01B1", "U+01B2", "U+01B3", "U+01B5", "U+01B7", "U+01B8",
    "U+01BC", "U+01C4", "U+01C5", "U+01C7", "U+01C8", "U+01CA", "U+01CB",
    "U+01CD", "U+01CF", "U+01D1", "U+01D3", "U+01D5", "U+01D7", "U+01D9",
    "U+01DB", "U+01DE", "U+01E0", "U+01E2", "U+01E4", "U+01E6", "U+01E8",
    "U+01EA", "U+01EC", "U+01EE", "U+01F1", "U+01F2", "U+01F4", "U+01F6",
    "U+01F7", "U+01F8", "U+01FA", "U+01FC", "U+01FE", "U+0200", "U+0202",
    "U+0204", "U+0206", "U+0208", "U+020A", "U+020C", "U+020E", "U+0210",
    "U+0212", "U+0214", "U+0216", "U+0218", "U+021A", "U+021C", "U+021E",
    "U+0220", "U+0222", "U+0224", "U+0226", "U+0228", "U+022A", "U+022C",
    "U+022E", "U+0230", "U+0232", "U+023A", "U+023B", "U+023D", "U+023E",
    "U+0241", "U+0243", "U+0244", "U+0245", "U+0246", "U+0248", "U+024A",
    "U+024C", "U+024E", "U+0370", "U+0372", "U+0376", "U+037F", "U+0386",
    "U+0388", "U+0389", "U+038A", "U+038C", "U+038E", "U+038F", "U+0391",
    "U+0392", "U+0393", "U+0394", "U+0395", "U+0396", "U+0397", "U+0398",
    "U+0399", "U+039A", "U+039B", "U+039C", "U+039D", "U+039E", "U+039F",
    "U+03A0", "U+03A1", "U+03A3", "U+03A4", "U+03A5", "U+03A6", "U+03A7",
    "U+03A8", "U+03A9", "U+03AA", "U+03AB", "U+03CF", "U+03D8", "U+03DA",
    "U+03DC", "U+03DE", "U+03E0", "U+03E2", "U+03E4", "U+03E6", "U+03E8",
    "U+03EA", "U+03EC", "U+03EE", "U+03F4", "U+03F7", "U+03F9", "U+03FA",
    "U+03FD", "U+03FE", "U+03FF", "U+0400", "U+0401", "U+0402", "U+0403",
    "U+0404", "U+0405", "U+0406", "U+0407", "U+0408", "U+0409", "U+040A",
    "U+040B", "U+040C", "U+040D", "U+040E", "U+040F", "U+0410", "U+0411",
    "U+0412", "U+0413", "U+0414", "U+0415", "U+0416", "U+0417", "U+0418",
    "U+0419", "U+041A", "U+041B", "U+041C", "U+041D", "U+041E", "U+041F",
    "U+0420", "U+0421", "U+0422", "U+0423", "U+0424", "U+0425", "U+0426",
    "U+0427", "U+0428", "U+0429", "U+042A", "U+042B", "U+042C", "U+042D",
    "U+042E", "U+042F", "U+0460", "U+0462", "U+0464", "U+0466", "U+0468",
    "U+046A", "U+046C", "U+046E", "U+0470", "U+0472", "U+0474", "U+0476",
    "U+0478", "U+047A", "U+047C", "U+047E", "U+0480", "U+048A", "U+048C",
    "U+048E", "U+0490", "U+0492", "U+0494", "U+0496", "U+0498", "U+049A",
    "U+049C", "U+049E", "U+04A0", "U+04A2", "U+04A4", "U+04A6", "U+04A8",
    "U+04AA", "U+04AC", "U+04AE", "U+04B0", "U+04B2", "U+04B4", "U+04B6",
    "U+04B8", "U+04BA", "U+04BC", "U+04BE", "U+04C0", "U+04C1", "U+04C3",
    "U+04C5", "U+04C7", "U+04C9", "U+04CB", "U+04CD", "U+04D0", "U+04D2",
    "U+04D4", "U+04D6", "U+04D8", "U+04DA", "U+04DC", "U+04DE", "U+04E0",
    "U+04E2", "U+04E4", "U+04E6", "U+04E8", "U+04EA", "U+04EC", "U+04EE",
    "U+04F0", "U+04F2", "U+04F4", "U+04F6", "U+04F8", "U+04FA", "U+04FC",
    "U+04FE", "U+0500", "U+0502", "U+0504", "U+0506", "U+0508", "U+050A",
    "U+050C", "U+050E", "U+0510", "U+0512", "U+0514", "U+0516", "U+0518",
    "U+051A", "U+051C", "U+051E", "U+0520", "U+0522", "U+0524", "U+0526",
    "U+0528", "U+052A", "U+052C", "U+052E", "U+2160", "U+2161", "U+2162",
    "U+2163", "U+2164", "U+2165", "U+2166", "U+2167", "U+2168", "U+2169",
    "U+216A", "U+216B", "U+216C", "U+216D", "U+216E", "U+216F", "U+24B6",
    "U+24B7", "U+24B8", "U+24B9", "U+24BA", "U+24BB", "U+24BC", "U+24BD",
    "U+24BE", "U+24BF", "U+24C0", "U+24C1", "U+24C2", "U+24C3", "U+24C4",
    "U+24C5", "U+24C6", "U+24C7", "U+24C8", "U+24C9", "U+24CA", "U+24CB",
    "U+24CC", "U+24CD", "U+24CE", "U+24CF" >>

LowerChars ==
  << "a", "b", "c", "d", "e", "f", "g", "h", "i", "j", "k", "l", "m", "n",
    "o", "p", "q", "r", "s", "t", "u", "v", "w", "x", "y", "z", "U+00E0",
    "U+00E1", "U+00E2", "U+00E3", "U+00E4", "U+00E5", "U+00E6", "U+00E7",
    "U+00E8", "U+00E9", "U+00EA", "U+00EB", "U+00EC", "U+00ED", "U+00EE",
    "U+00EF", "U+00F0", "U+00F1", "U+00F2", "U+00F3", "U+00F4", "U+00F5",
    "U+00F6", "U+00F8", "U+00F9", "U+00FA", "U+00FB", "U+00FC", "U+00FD",
    "U+00FE", "U+0101", "U+0103", "U+0105", "U+0107", "U+0109", "U+010B",
    "U+010D", "U+010F", "U+0111", "U+0113", "U+0115", "U+0117", "U+0119",
    "U+011B", "U+011D", "U+011F", "U+0121", "U+0123", "U+0125", "U+0127",
    "U+0129", "U+012B", "U+012D", "U+012F", "U+0133", "U+0135", "U+0137",
    "U+013A", "U+013C", "U+013E", "U+0140", "U+0142", "U+0144", "U+0146",
    "U+0148", "U+014B", "U+014D", "U+014F", "U+0151", "U+0153", "U+0155",
    "U+0157", "U+0159", "U+015B", "U+015D", "U+015F", "U+0161", "U+0163",
    "U+0165", "U+0167", "U+0169", "U+016B", "U+016D", "U+016F", "U+0171",
    "U+0173", "U+0175", "U+0177", "U+00FF", "U+017A", "U+017C", "U+017E",
    "U+0253", "U+0183", "U+0185", "U+0254", "U+0188", "U+0256", "U+0257",
    "U+018C", "U+01DD", "U+0259", "U+025B", "U+0192", "U+0260", "U+0263",
    "U+0269", "U+0268", "U+0199", "U+026F", "U+0272", "U+0275", "U+01A1",
    "U+01A3", "U+01A5", "U+0280", "U+01A8", "U+0283", "U+01AD", "U+0288",
    "U+01B0", "U+028A", "U+028B", "U+01B4", "U+01B6", "U+0292", "U+01B9",
    "U+01BD", "U+01C6", "U+01C6", "U+01C9", "U+01C9", "U+01CC", "U+01CC",
    "U+01CE", "U+01D0", "U+01D2", "U+01D4", "U+01D6", "U+01D8", "U+01DA",
    "U+01DC", "U+01DF", "U+01E1", "U+01E3", "U+01E5", "U+01E7", "U+01E9",
    "U+01EB", "U+01ED", "U+01EF", "U+01F3", "U+01F3", "U+01F5", "U+0195",
    "U+01BF", "U+01F9", "U+01FB", "U+01FD", "U+01FF", "U+0201", "U+0203",
    "U+0205", "U+0207", "U+0209", "U+020B", "U+020D", "U+020F", "U+0211",
    "U+0213", "U+0215", "U+0217", "U+0219", "U+021B", "U+021D", "U+021F",
    "U+019E", "U+0223", "U+0225", "U+0227", "U+0229", "U+022B", "U+022D",
    "U+022F", "U+0231", "U+0233", "U+2C65", "U+023C", "U+019A", "U+2C66",
    "U+0242", "U+0180", "U+0289", "U+028C", "U+0247", "U+0249", "U+024B",
    "U+024D", "U+024F", "U+0371", "U+0373", "U+0377", "U+03F3", "U+03AC",
    "U+03AD", "U+03AE", "U+03AF", "U+03CC", "U+03CD", "U+03CE", "U+03B1",
    "U+03B2", "U+03B3", "U+03B4", "U+03B5", "U+03B6", "U+03B7", "U+03B8",
    "U+03B9", "U+03BA", "U+03BB", "U+03BC", "U+03BD", "U+03BE", "U+03BF",
    "U+03C0", "U+03C1", "U+03C3", "U+03C4", "U+03C5", "U+03C6", "U+03C7",
    "U+03C8", "U+03C9", "U+03CA", "U+03CB", "U+03D7", "U+03D9", "U+03DB",
    "U+03DD", "U+03DF", "U+03E1", "U+03E3", "U+03E5", "U+03E7", "U+03E9",
    "U+03EB", "U+03ED", "U+03EF", "U+03B8", "U+03F8", "U+03F2", "U+03FB",
    "U+037B", "U+037C", "U+037D", "U+0450", "U+0451", "U+0452", "U+0453",
    "U+0454", "U+0455", "U+0456", "U+0457", "U+0458", "U+0459", "U+045A",
    "U+045B", "U+045C", "U+045D", "U+045E", "U+045F", "U+0430", "U+0431",
    "U+0432", "U+0433", "U+0434", "U+0435", "U+0436", "U+0437", "U+0438",
    "U+0439", "U+043A", "U+043B", "U+043C", "U+043D", "U+043E", "U+043F",
    "U+0440", "U+0441", "U+0442", "U+0443", "U+0444", "U+0445", "U+0446",
    "U+0447", "U+0448", "U+0449", "U+044A", "U+044B", "U+044C", "U+044D",
    "U+044E", "U+044F", "U+0461", "U+0463", "U+0465", "U+0467", "U+0469",
    "U+046B", "U+046D", "U+046F", "U+0471", "U+0473", "U+0475", "U+0477",
    "U+0479", "U+047B", "U+047D", "U+047F", "U+0481", "U+048B", "U+048D",
    "U+048F", "U+0491", "U+0493", "U+0495", "U+0497", "U+0499", "U+049B",
    "U+049D", "U+049F", "U+04A1", "U+04A3", "U+04A5", "U+04A7", "U+04A9",
    "U+04AB", "U+04AD", "U+04AF", "U+04B1", "U+04B3", "U+04B5", "U+04B7",
    "U+04B9", "U+04BB", "U+04BD", "U+04BF", "U+04CF", "U+04C2", "U+04C4",
    "U+04C6", "U+04C8", "U+04CA", "U+04CC", "U+04CE", "U+04D1", "U+04D3",
    "U+04D5", "U+04D7", "U+04D9", "U+04DB", "U+04DD", "U+04DF", "U+04E1",
    "U+04E3", "U+04E5", "U+04E7", "U+04E9", "U+04EB", "U+04ED", "U+04EF",
    "U+04F1", "U+04F3", "U+04F5", "U+04F7", "U+04F9", "U+04FB", "U+04FD",
    "U+04FF", "U+0501", "U+0503", "U+0505", "U+0507", "U+0509", "U+050B",
    "U+050D", "U+050F", "U+0511", "U+0513", "U+0515", "U+0517", "U+0519",
    "U+051B", "U+051D", "U+051F", "U+0521", "U+0523", "U+0525", "U+0527",
    "U+0529", "U+052B", "U+052D", "U+052F", "U+2170", "U+2171", "U+2172",
    "U+2173", "U+2174", "U+2175", "U+2176", "U+2177", "U+2178", "U+2179",
    "U+217A", "U+217B", "U+217C", "U+217D", "U+217E", "U+217F", "U+24D0",
    "U+24D1", "U+24D2", "U+24D3", "U+24D4", "U+24D5", "U+24D6", "U+24D7",
    "U+24D8", "U+24D9", "U+24DA", "U+24DB", "U+24DC", "U+24DD", "U+24DE",
    "U+24DF", "U+24E0", "U+24E1", "U+24E2", "U+24E3", "U+24E4", "U+24E5",
    "U+24E6", "U+24E7", "U+24E8", "U+24E9" >>

UpperSet == {UpperChars[i] : i \in 1..Len(UpperChars)}
LowerSet == {LowerChars[i] : i \in 1..Len(LowerChars)}

LowerCaseOf ==
  [c \in UpperSet |-> LowerChars[CHOOSE i \in 1..Len(UpperChars) : UpperChars[i] = c]]

\* The code units the context rule of U+03A3 skips (Case_Ignorable): the
\* letters among them up to U+052F, the others over the whole range.
CaseIgnorableChars ==
  { "'", ".", ":", "^", "U+0060", "U+00A8", "U+00AD", "U+00AF", "U+00B4",
    "U+00B7", "U+00B8", "U+02B0", "U+02B1", "U+02B2", "U+02B3", "U+02B4",
    "U+02B5", "U+02B6", "U+02B7", "U+02B8", "U+02B9", "U+02BA", "U+02BB",
    "U+02BC", "U+02BD", "U+02BE", "U+02BF", "U+02C0", "U+02C1", "U+02C2",
    "U+02C3", "U+02C4", "U+02C5", "U+02C6", "U+02C7", "U+02C8", "U+02C9",
    "U+02CA", "U+02CB", "U+02CC", "U+02CD", "U+02CE", "U+02CF", "U+02D0",
    "U+02D1", "U+02D2", "U+02D3", "U+02D4", "U+02D5", "U+02D6", "U+02D7",
    "U+02D8", "U+02D9", "U+02DA", "U+02DB", "U+02DC", "U+02DD", "U+02DE",
    "U+02DF", "U+02E0", "U+02E1", "U+02E2", "U+02E3", "U+02E4", "U+02E5",
    "U+02E6", "U+02E7", "U+02E8", "U+02E9", "U+02EA", "U+02EB", "U+02EC",
    "U+02ED", "U+02EE", "U+02EF", "U+02F0", "U+02F1", "U+02F2", "U+02F3",
    "U+02F4", "U+02F5", "U+02F6", "U+02F7", "U+02F8", "U+02F9", "U+02FA",
    "U+02FB", "U+02FC", "U+02FD", "U+02FE", "U+02FF", "U+0300", "U+0301",
    "U+0302", "U+0303", "U+0304", "U+0305", "U+0306", "U+0307", "U+0308",
    "U+0309", "U+030A", "U+030B", "U+030C", "U+030D", "U+030E", "U+030F",
    "U+0310", "U+0311", "U+0312", "U+0313", "U+0314", "U+0315", "U+0316",
    "U+0317", "U+0318", "U+0319", "U+031A", "U+031B", "U+031C", "U+031D",
    "U+031E", "U+031F", "U+0320", "U+0321", "U+0322", "U+0323", "U+0324",
    "U+0325", "U+0326", "U+0327", "U+0328", "U+0329", "U+032A", "U+032B",
    "U+032C", "U+032D", "U+032E", "U+032F", "U+0330", "U+0331", "U+0332",
    "U+0333", "U+0334", "U+0335", "U+0336", "U+0337", "U+0338", "U+0339",
    "U+033A", "U+033B", "U+033C", "U+033D", "U+033E", "U+033F", "U+0340",
    "U+0341", "U+0342", "U+0343", "U+0344", "U+0345", "U+0346", "U+0347",
    "U+0348", "U+0349", "U+034A", "U+034B", "U+034C", "U+034D", "U+034E",
    "U+034F", "U+0350", "U+0351", "U+0352", "U+0353", "U+0354", "U+0355",
    "U+0356", "U+0357", "U+0358", "U+0359", "U+035A", "U+035B", "U+035C",
    "U+035D", "U+035E", "U+035F", "U+0360", "U+0361", "U+0362", "U+0363",
    "U+0364", "U+0365", "U+0366", "U+0367", "U+0368", "U+0369", "U+036A",
    "U+036B", "U+036C", "U+036D", "U+036E", "U+036F", "U+0374", "U+0375",
    "U+037A", "U+0384", "U+0385", "U+0387", "U+0483", "U+0484", "U+0485",
    "U+0486", "U+0487", "U+0488", "U+0489", "U+055F", "U+0591", "U+0592",
    "U+0593", "U+0594", "U+0595", "U+0596", "U+0597", "U+0598", "U+0599",
    "U+059A", "U+059B", "U+059C", "U+059D", "U+059E", "U+059F", "U+05A0",
    "U+05A1", "U+05A2", "U+05A3", "U+05A4", "U+05A5", "U+05A6", "U+05A7",
    "U+05A8", "U+05A9", "U+05AA", "U+05AB", "U+05AC", "U+05AD", "U+05AE",
    "U+05AF", "U+05B0", "U+05B1", "U+05B2", "U+05B3", "U+05B4", "U+05B5",
    "U+05B6", "U+05B7", "U+05B8", "U+05B9", "U+05BA", "U+05BB", "U+05BC",
    "U+05BD", "U+05BF", "U+05C1", "U+05C2", "U+05C4", "U+05C5", "U+05C7",
    "U+05F4", "U+0600", "U+0601", "U+0602", "U+0603", "U+0604", "U+0605",
    "U+0610", "U+0611", "U+0612", "U+0613", "U+0614", "U+0615", "U+0616",
    "U+0617", "U+0618", "U+0619", "U+061A", "U+061C", "U+064B", "U+064C",
    "U+064D", "U+064E", "U+064F", "U+0650", "U+0651", "U+0652", "U+0653",
    "U+0654", "U+0655", "U+0656", "U+0657", "U+0658", "U+0659", "U+065A",
    "U+065B", "U+065C", "U+065D", "U+065E", "U+065F", "U+0670", "U+06D6",
    "U+06D7", "U+06D8", "U+06D9", "U+06DA", "U+06DB", "U+06DC", "U+06DD",
    "U+06DF", "U+06E0", "U+06E1", "U+06E2", "U+06E3", "U+06E4", "U+06E7",
    "U+06E8", "U+06EA", "U+06EB", "U+06EC", "U+06ED", "U+070F", "U+0711",
    "U+0730", "U+0731", "U+0732", "U+0733", "U+0734", "U+0735", "U+0736",
    "U+0737", "U+0738", "U+0739", "U+073A", "U+073B", "U+073C", "U+073D",
    "U+073E", "U+073F", "U+0740", "U+0741", "U+0742", "U+0743", "U+0744",
    "U+0745", "U+0746", "U+0747", "U+0748", "U+0749", "U+074A", "U+07A6",
    "U+07A7", "U+07A8", "U+07A9", "U+07AA", "U+07AB", "U+07AC", "U+07AD",
    "U+07AE", "U+07AF", "U+07B0", "U+07EB", "U+07EC", "U+07ED", "U+07EE",
    "U+07EF", "U+07F0", "U+07F1", "U+07F2", "U+07F3", "U+07FD", "U+0816",
    "U+0817", "U+0818", "U+0819", "U+081B", "U+081C", "U+081D", "U+081E",
    "U+081F", "U+0820", "U+0821", "U+0822", "U+0823", "U+0825", "U+0826",
    "U+0827", "U+0829", "U+082A", "U+082B", "U+082C", "U+082D", "U+0859",
    "U+085A", "U+085B", "U+0888", "U+0890", "U+0891", "U+0897", "U+0898",
    "U+0899", "U+089A", "U+089B", "U+089C", "U+089D", "U+089E", "U+089F",
    "U+08CA", "U+08CB", "U+08CC", "U+08CD", "U+08CE", "U+08CF", "U+08D0",
    "U+08D1", "U+08D2", "U+08D3", "U+08D4", "U+08D5", "U+08D6", "U+08D7",
    "U+08D8", "U+08D9", "U+08DA", "U+08DB", "U+08DC", "U+08DD", "U+08DE",
    "U+08DF", "U+08E0", "U+08E1", "U+08E2", "U+08E3", "U+08E4", "U+08E5",
    "U+08E6", "U+08E7", "U+08E8", "U+08E9", "U+08EA", "U+08EB", "U+08EC",
    "U+08ED", "U+08EE", "U+08EF", "U+08F0", "U+08F1", "U+08F2", "U+08F3",
    "U+08F4", "U+08F5", "U+08F6", "U+08F7", "U+08F8", "U+08F9", "U+08FA",
    "U+08FB", "U+08FC", "U+08FD", "U+08FE", "U+08FF", "U+0900", "U+0901",
    "U+0902", "U+093A", "U+093C", "U+0941", "U+0942", "U+0943", "U+0944",
    "U+0945", "U+0946", "U+0947", "U+0948", "U+094D", "U+0951", "U+0952",
    "U+0953", "U+0954", "U+0955", "U+0956", "U+0957", "U+0962", "U+0963",
    "U+0981", "U+09BC", "U+09C1", "U+09C2", "U+09C3", "U+09C4", "U+09CD",
    "U+09E2", "U+09E3", "U+09FE", "U+0A01", "U+0A02", "U+0A3C", "U+0A41",
    "U+0A42", "U+0A47", "U+0A48", "U+0A4B", "U+0A4C", "U+0A4D", "U+0A51",
    "U+0A70", "U+0A71", "U+0A75", "U+0A81", "U+0A82", "U+0ABC", "U+0AC1",
    "U+0AC2", "U+0AC3", "U+0AC4", "U+0AC5", "U+0AC7", "U+0AC8", "U+0ACD",
    "U+0AE2", "U+0AE3", "U+0AFA", "U+0AFB", "U+0AFC", "U+0AFD", "U+0AFE",
    "U+0AFF", "U+0B01", "U+0B3C", "U+0B3F", "U+0B41", "U+0B42", "U+0B43",
    "U+0B44", "U+0B4D", "U+0B55", "U+0B56", "U+0B62", "U+0B63", "U+0B82",
    "U+0BC0", "U+0BCD", "U+0C00", "U+0C04", "U+0C3C", "U+0C3E", "U+0C3F",
    "U+0C40", "U+0C46", "U+0C47", "U+0C48", "U+0C4A", "U+0C4B", "U+0C4C",
    "U+0C4D", "U+0C55", "U+0C56", "U+0C62", "U+0C63", "U+0C81", "U+0CBC",
    "U+0CBF", "U+0CC6", "U+0CCC", "U+0CCD", "U+0CE2", "U+0CE3", "U+0D00",
    "U+0D01", "U+0D3B", "U+0D3C", "U+0D41", "U+0D42", "U+0D43", "U+0D44",
    "U+0D4D", "U+0D62", "U+0D63", "U+0D81", "U+0DCA", "U+0DD2", "U+0DD3",
    "U+0DD4", "U+0DD6", "U+0E31", "U+0E34", "U+0E35", "U+0E36", "U+0E37",
    "U+0E38", "U+0E39", "U+0E3A", "U+0E47", "U+0E48", "U+0E49", "U+0E4A",
    "U+0E4B", "U+0E4C", "U+0E4D", "U+0E4E", "U+0EB1", "U+0EB4", "U+0EB5",
    "U+0EB6", "U+0EB7", "U+0EB8", "U+0EB9", "U+0EBA", "U+0EBB", "U+0EBC",
    "U+0EC8", "U+0EC9", "U+0ECA", "U+0ECB", "U+0ECC", "U+0ECD", "U+0ECE",
    "U+0F18", "U+0F19", "U+0F35", "U+0F37", "U+0F39", "U+0F71", "U+0F72",
    "U+0F73", "U+0F74", "U+0F75", "U+0F76", "U+0F77", "U+0F78", "U+0F79",
    "U+0F7A", "U+0F7B", "U+0F7C", "U+0F7D", "U+0F7E", "U+0F80", "U+0F81",
    "U+0F82", "U+0F83", "U+0F84", "U+0F86", "U+0F87", "U+0F8D", "U+0F8E",
    "U+0F8F", "U+0F90", "U+0F91", "U+0F92", "U+0F93", "U+0F94", "U+0F95",
    "U+0F96", "U+0F97", "U+0F99", "U+0F9A", "U+0F9B", "U+0F9C", "U+0F9D",
    "U+0F9E", "U+0F9F", "U+0FA0", "U+0FA1", "U+0FA2", "U+0FA3", "U+0FA4",
    "U+0FA5", "U+0FA6", "U+0FA7", "U+0FA8", "U+0FA9", "U+0FAA", "U+0FAB",
    "U+0FAC", "U+0FAD", "U+0FAE", "U+0FAF", "U+0FB0", "U+0FB1", "U+0FB2",
    "U+0FB3", "U+0FB4", "U+0FB5", "U+0FB6", "U+0FB7", "U+0FB8", "U+0FB9",
    "U+0FBA", "U+0FBB", "U+0FBC", "U+0FC6", "U+102D", "U+102E", "U+102F",
    "U+1030", "U+1032", "U+1033", "U+1034", "U+1035", "U+1036", "U+1037",
    "U+1039", "U+103A", "U+103D", "U+103E", "U+1058", "U+1059", "U+105E",
    "U+105F", "U+1060", "U+1071", "U+1072", "U+1073", "U+1074", "U+1082",
    "U+1085", "U+1086", "U+108D", "U+109D", "U+135D", "U+135E", "U+135F",
    "U+1712", "U+1713", "U+1714", "U+1732", "U+1733", "U+1752", "U+1753",
    "U+1772", "U+1773", "U+17B4", "U+17B5", "U+17B7", "U+17B8", "U+17B9",
    "U+17BA", "U+17BB", "U+17BC", "U+17BD", "U+17C6", "U+17C9", "U+17CA",
    "U+17CB", "U+17CC", "U+17CD", "U+17CE", "U+17CF", "U+17D0", "U+17D1",
    "U+17D2", "U+17D3", "U+17DD", "U+180B", "U+180C", "U+180D", "U+180E",
    "U+180F", "U+1885", "U+1886", "U+18A9", "U+1920", "U+1921", "U+1922",
    "U+1927", "U+1928", "U+1932", "U+1939", "U+193A", "U+193B", "U+1A17",
    "U+1A18", "U+1A1B", "U+1A56", "U+1A58", "U+1A59", "U+1A5A", "U+1A5B",
    "U+1A5C", "U+1A5D", "U+1A5E", "U+1A60", "U+1A62", "U+1A65", "U+1A66",
    "U+1A67", "U+1A68", "U+1A69", "U+1A6A", "U+1A6B", "U+1A6C", "U+1A73",
    "U+1A74", "U+1A75", "U+1A76", "U+1A77", "U+1A78", "U+1A79", "U+1A7A",
    "U+1A7B", "U+1A7C", "U+1A7F", "U+1AB0", "U+1AB1", "U+1AB2", "U+1AB3",
    "U+1AB4", "U+1AB5", "U+1AB6", "U+1AB7", "U+1AB8", "U+1AB9", "U+1ABA",
    "U+1ABB", "U+1ABC", "U+1ABD", "U+1ABE", "U+1ABF", "U+1AC0", "U+1AC1",
    "U+1AC2", "U+1AC3", "U+1AC4", "U+1AC5", "U+1AC6", "U+1AC7", "U+1AC8",
    "U+1AC9", "U+1ACA", "U+1ACB", "U+1ACC", "U+1ACD", "U+1ACE", "U+1ACF",
    "U+1AD0", "U+1AD1", "U+1AD2", "U+1AD3", "U+1AD4", "U+1AD5", "U+1AD6",
    "U+1AD7", "U+1AD8", "U+1AD9", "U+1ADA", "U+1ADB", "U+1ADC", "U+1ADD",
    "U+1AE0", "U+1AE1", "U+1AE2", "U+1AE3", "U+1AE4", "U+1AE5", "U+1AE6",
    "U+1AE7", "U+1AE8", "U+1AE9", "U+1AEA", "U+1AEB", "U+1B00", "U+1B01",
    "U+1B02", "U+1B03", "U+1B34", "U+1B36", "U+1B37", "U+1B38", "U+1B39",
    "U+1B3A", "U+1B3C", "U+1B42", "U+1B6B", "U+1B6C", "U+1B6D", "U+1B6E",
    "U+1B6F", "U+1B70", "U+1B71", "U+1B72", "U+1B73", "U+1B80", "U+1B81",
    "U+1BA2", "U+1BA3", "U+1BA4", "U+1BA5", "U+1BA8", "U+1BA9", "U+1BAB",
    "U+1BAC", "U+1BAD", "U+1BE6", "U+1BE8", "U+1BE9", "U+1BED", "U+1BEF",
    "U+1BF0", "U+1BF1", "U+1C2C", "U+1C2D", "U+1C2E", "U+1C2F", "U+1C30",
    "U+1C31", "U+1C32", "U+1C33", "U+1C36", "U+1C37", "U+1CD0", "U+1CD1",
    "U+1CD2", "U+1CD4", "U+1CD5", "U+1CD6", "U+1CD7", "U+1CD8", "U+1CD9",
    "U+1CDA", "U+1CDB", "U+1CDC", "U+1CDD", "U+1CDE", "U+1CDF", "U+1CE0",
    "U+1CE2", "U+1CE3", "U+1CE4", "U+1CE5", "U+1CE6", "U+1CE7", "U+1CE8",
    "U+1CED", "U+1CF4", "U+1CF8", "U+1CF9", "U+1DC0", "U+1DC1", "U+1DC2",
    "U+1DC3", "U+1DC4", "U+1DC5", "U+1DC6", "U+1DC7", "U+1DC8", "U+1DC9",
    "U+1DCA", "U+1DCB", "U+1DCC", "U+1DCD", "U+1DCE", "U+1DCF", "U+1DD0",
    "U+1DD1", "U+1DD2", "U+1DD3", "U+1DD4", "U+1DD5", "U+1DD6", "U+1DD7",
    "U+1DD8", "U+1DD9", "U+1DDA", "U+1DDB", "U+1DDC", "U+1DDD", "U+1DDE",
    "U+1DDF", "U+1DE0", "U+1DE1", "U+1DE2", "U+1DE3", "U+1DE4", "U+1DE5",
    "U+1DE6", "U+1DE7", "U+1DE8", "U+1DE9", "U+1DEA", "U+1DEB", "U+1DEC",
    "U+1DED", "U+1DEE", "U+1DEF", "U+1DF0", "U+1DF1", "U+1DF2", "U+1DF3",
    "U+1DF4", "U+1DF5", "U+1DF6", "U+1DF7", "U+1DF8", "U+1DF9", "U+1DFA",
    "U+1DFB", "U+1DFC", "U+1DFD", "U+1DFE", "U+1DFF", "U+1FBD", "U+1FBF",
    "U+1FC0", "U+1FC1", "U+1FCD", "U+1FCE", "U+1FCF", "U+1FDD", "U+1FDE",
    "U+1FDF", "U+1FED", "U+1FEE", "U+1FEF", "U+1FFD", "U+1FFE", "U+200B",
    "U+200C", "U+200D", "U+200E", "U+200F", "U+2018", "U+2019", "U+2024",
    "U+2027", "U+202A", "U+202B", "U+202C", "U+202D", "U+202E", "U+2060",
    "U+2061", "U+2062", "U+2063", "U+2064", "U+2066", "U+2067", "U+2068",
    "U+2069", "U+206A", "U+206B", "U+206C", "U+206D", "U+206E", "U+206F",
    "U+20D0", "U+20D1", "U+20D2", "U+20D3", "U+20D4", "U+20D5", "U+20D6",
    "U+20D7", "U+20D8", "U+20D9", "U+20DA", "U+20DB", "U+20DC", "U+20DD",
    "U+20DE", "U+20DF", "U+20E0", "U+20E1", "U+20E2", "U+20E3", "U+20E4",
    "U+20E5", "U+20E6", "U+20E7", "U+20E8", "U+20E9", "U+20EA", "U+20EB",
    "U+20EC", "U+20ED", "U+20EE", "U+20EF", "U+20F0", "U+2CEF", "U+2CF0",
    "U+2CF1", "U+2D7F", "U+2DE0", "U+2DE1", "U+2DE2", "U+2DE3", "U+2DE4",
    "U+2DE5", "U+2DE6", "U+2DE7", "U+2DE8", "U+2DE9", "U+2DEA", "U+2DEB",
    "U+2DEC", "U+2DED", "U+2DEE", "U+2DEF", "U+2DF0", "U+2DF1", "U+2DF2",
    "U+2DF3", "U+2DF4", "U+2DF5", "U+2DF6", "U+2DF7", "U+2DF8", "U+2DF9",
    "U+2DFA", "U+2DFB", "U+2DFC", "U+2DFD", "U+2DFE", "U+2DFF", "U+302A",
    "U+302B", "U+302C", "U+302D", "U+3099", "U+309A", "U+309B", "U+309C",
    "U+A66F", "U+A670", "U+A671", "U+A672", "U+A674", "U+A675", "U+A676",
    "U+A677", "U+A678", "U+A679", "U+A67A", "U+A67B", "U+A67C", "U+A67D",
    "U+A69E", "U+A69F", "U+A6F0", "U+A6F1", "U+A700", "U+A701", "U+A702",
    "U+A703", "U+A704", "U+A705", "U+A706", "U+A707", "U+A708", "U+A709",
    "U+A70A", "U+A70B", "U+A70C", "U+A70D", "U+A70E", "U+A70F", "U+A710",
    "U+A711", "U+A712", "U+A713", "U+A714", "U+A715", "U+A716", "U+A720",
    "U+A721", "U+A789", "U+A78A", "U+A802", "U+A806", "U+A80B", "U+A825",
    "U+A826", "U+A82C", "U+A8C4", "U+A8C5", "U+A8E0", "U+A8E1", "U+A8E2",
    "U+A8E3", "U+A8E4", "U+A8E5", "U+A8E6", "U+A8E7", "U+A8E8", "U+A8E9",
    "U+A8EA", "U+A8EB", "U+A8EC", "U+A8ED", "U+A8EE", "U+A8EF", "U+A8F0",
    "U+A8F1", "U+A8FF", "U+A926", "U+A927", "U+A928", "U+A929", "U+A92A",
    "U+A92B", "U+A92C", "U+A92D", "U+A947", "U+A948", "U+A949", "U+A94A",
    "U+A94B", "U+A94C", "U+A94D", "U+A94E", "U+A94F", "U+A950", "U+A951",
    "U+A980", "U+A981", "U+A982", "U+A9B3", "U+A9B6", "U+A9B7", "U+A9B8",
    "U+A9B9", "U+A9BC", "U+A9BD", "U+A9E5", "U+AA29", "U+AA2A", "U+AA2B",
    "U+AA2C", "U+AA2D", "U+AA2E", "U+AA31", "U+AA32", "U+AA35", "U+AA36",
    "U+AA43", "U+AA4C", "U+AA7C", "U+AAB0", "U+AAB2", "U+AAB3", "U+AAB4",
    "U+AAB7", "U+AAB8", "U+AABE", "U+AABF", "U+AAC1", "U+AAEC", "U+AAED",
    "U+AAF6", "U+AB5B", "U+AB6A", "U+AB6B", "U+ABE5", "U+ABE8", "U+ABED",
    "U+FB1E", "U+FBB2", "U+FBB3", "U+FBB4", "U+FBB5", "U+FBB6", "U+FBB7",
    "U+FBB8", "U+FBB9", "U+FBBA", "U+FBBB", "U+FBBC", "U+FBBD", "U+FBBE",
    "U+FBBF", "U+FBC0", "U+FBC1", "U+FBC2", "U+FE00", "U+FE01", "U+FE02",
    "U+FE03", "U+FE04", "U+FE05", "U+FE06", "U+FE07", "U+FE08", "U+FE09",
    "U+FE0A", "U+FE0B", "U+FE0C", "U+FE0D", "U+FE0E", "U+FE0F", "U+FE13",
    "U+FE20", "U+FE21", "U+FE22", "U+FE23", "U+FE24", "U+FE25", "U+FE26",
    "U+FE27", "U+FE28", "U+FE29", "U+FE2A", "U+FE2B", "U+FE2C", "U+FE2D",
    "U+FE2E", "U+FE2F", "U+FE52", "U+FE55", "U+FEFF", "U+FF07", "U+FF0E",
    "U+FF1A", "U+FF3E", "U+FF40", "U+FFE3", "U+FFF9", "U+FFFA", "U+FFFB" }

\* The cased code units that have no other case among the code units.
OtherCasedChars ==
  { "U+00AA", "U+00B5", "U+00BA", "U+00DF", "U+0131", "U+0138", "U+0149",
    "U+017F", "U+018D", "U+019B", "U+01AA", "U+01AB", "U+01BA", "U+01BE",
    "U+01F0", "U+0221", "U+0234", "U+0235", "U+0236", "U+0237", "U+0238",
    "U+0239", "U+023F", "U+0240", "U+0250", "U+0251", "U+0252", "U+0255",
    "U+0258", "U+025A", "U+025C", "U+025D", "U+025E", "U+025F", "U+0261",
    "U+0262", "U+0264", "U+0265", "U+0266", "U+0267", "U+026A", "U+026B",
    "U+026C", "U+026D", "U+026E", "U+0270", "U+0271", "U+0273", "U+0274",
    "U+0276", "U+0277", "U+0278", "U+0279", "U+027A", "U+027B", "U+027C",
    "U+027D", "U+027E", "U+027F", "U+0281", "U+0282", "U+0284", "U+0285",
    "U+0286", "U+0287", "U+028D", "U+028E", "U+028F", "U+0290", "U+0291",
    "U+0293", "U+0296", "U+0297", "U+0298", "U+0299", "U+029A", "U+029B",
    "U+029C", "U+029D", "U+029E", "U+029F", "U+02A0", "U+02A1", "U+02A2",
    "U+02A3", "U+02A4", "U+02A5", "U+02A6", "U+02A7", "U+02A8", "U+02A9",
    "U+02AA", "U+02AB", "U+02AC", "U+02AD", "U+02AE", "U+02AF", "U+0390",
    "U+03B0", "U+03C2", "U+03D0", "U+03D1", "U+03D2", "U+03D3", "U+03D4",
    "U+03D5", "U+03D6", "U+03F0", "U+03F1", "U+03F5", "U+03FC" }

IsCaseIgnorable(c) == c \in CaseIgnorableChars

\* The cased code units the context rule of U+03A3 looks for: the rule skips
\* the ones above before it tests for these.
CasedChars ==
  (UpperSet \cup LowerSet \cup OtherCasedChars \cup {"U+0130"}) \ CaseIgnorableChars
IsCased(c) == c \in CasedChars

\* The lower-case form of one code unit on its own.
toLowerCaseChar(c) ==
  IF c = "U+0130" THEN <<"i", "U+0307">>
  ELSE IF c \in UpperSet THEN <<LowerCaseOf[c]>>
  ELSE <<c>>

\* s[i] is U+03A3 at the end of a word: a cased code unit precedes it, with
\* nothing but skipped code units between, and no cased code unit follows it
\* in that way.
isFinalSigma(s, i) ==
  /\ \E j \in 1..(i - 1) :
       IsCased(s[j]) /\ \A k \in (j + 1)..(i - 1) : IsCaseIgnorable(s[k])
  /\ ~\E j \in (i + 1)..Len(s) :
        IsCased(s[j]) /\ \A k \in (i + 1)..(j - 1) : IsCaseIgnorable(s[k])

RECURSIVE toLowerCaseFrom(_, _)
toLowerCaseFrom(s, i) ==
  IF i > Len(s) THEN <<>>
  ELSE (IF s[i] = "U+03A3" /\ isFinalSigma(s, i) THEN <<"U+03C2">>
        ELSE toLowerCaseChar(s[i])) \o toLowerCaseFrom(s, i + 1)

toLowerCase(s) == toLowerCaseFrom(s, 1)

\* s.includes(sub): sub occurs in s as a contiguous run; the empty text occurs in every text.
includes(s, sub) ==
  \E i \in 0..(Len(s) - Len(sub)) : SubSeq(s, i + 1, i + Len(sub)) = sub

(***************************************************************************)
(* String(value).                                                          *)
(***************************************************************************)
DigitChars == <<"0", "1", "2", "3", "4", "5", "6", "7", "8", "9">>

RECURSIVE NatToString(_)
NatToString(n) ==
  IF n < 10 THEN <<DigitChars[n + 1]>>
  ELSE NatToString(n \div 10) \o <<DigitChars[(n % 10) + 1]>>

NumberToString(n) == IF n < 0 THEN <<"-">> \o NatToString(-n) ELSE NatToString(n)

\* String(v): an array is its elements joined, and so is an array inside an array;
\* a built-in function is "function name() { [native code] }" and Object.prototype
\* is "[object Object]".
RECURSIVE JSString(_)

\* Array.prototype.join(","): null and undefined elements join as the empty text,
\* every other element as String(element).
RECURSIVE ArrayJoin(_)
ArrayJoin(a) ==
  IF a = <<>> THEN <<>>
  ELSE LET first == IF Head(a).t \in {"null", "undefined"} THEN <<>> ELSE JSString(Head(a))
       IN IF Len(a) = 1 THEN first ELSE first \o <<",">> \o ArrayJoin(Tail(a))

JSString(v) ==
  CASE v.t = "string" -> v.s
    [] v.t = "number" -> NumberToString(v.n)
    [] v.t = "boolean" -> IF v.b THEN <<"t", "r", "u", "e">> ELSE <<"f", "a", "l", "s", "e">>
    [] v.t = "null" -> <<"n", "u", "l", "l">>
    [] v.t = "array" -> ArrayJoin(v.a)
    [] v.t = "function" ->
         <<"f", "u", "n", "c", "t", "i", "o", "n", " ">> \o v.s
           \o <<"(", ")", " ", "{", " ", "[", "n", "a", "t", "i", "v", "e", " ",
              "c", "o", "d", "e", "]", " ", "}">>
    [] v.t = "object" ->
         <<"[", "o", "b", "j", "e", "c", "t", " ", "O", "b", "j", "e", "c",
           "t", "]">>
    [] OTHER -> <<"u", "n", "d", "e", "f", "i", "n", "e", "d">>

(***************************************************************************)
(* Number(value).                                                          *)
(***************************************************************************)
\* The code units Number(text) skips at either end: white space (tab, vertical
\* tab, form feed, space, no-break space, U+FEFF and the space separators) and
\* the line terminators.
WhiteSpaceChars ==
  { "\t", "U+000B", "\f", " ", "U+00A0", "U+FEFF", "U+1680", "U+2000", "U+2001",
    "U+2002", "U+2003", "U+2004", "U+2005", "U+2006", "U+2007", "U+2008",
    "U+2009", "U+200A", "U+202F", "U+205F", "U+3000",
    "\n", "\r", "U+2028", "U+2029" }

RECURSIVE TrimStart(_)
TrimStart(s) == IF s # <<>> /\ Head(s) \in WhiteSpaceChars THEN TrimStart(Tail(s)) ELSE s

RECURSIVE TrimEnd(_)
TrimEnd(s) ==
  IF s # <<>> /\ s[Len(s)] \in WhiteSpaceChars
  THEN TrimEnd(SubSeq(s, 1, Len(s) - 1))
  ELSE s

IsDigit(c) == \E i \in 1..Len(DigitChars) : DigitChars[i] = c
DigitValue(c) == (CHOOSE i \in 1..Len(DigitChars) : DigitChars[i] = c) - 1
IsDigits(s) == s # <<>> /\ \A i \in 1..Len(s) : IsDigit(s[i])

RECURSIVE DigitsValue(_)
DigitsValue(s) ==
  IF s = <<>> THEN 0
  ELSE 10 * DigitsValue(SubSeq(s, 1, Len(s) - 1)) + DigitValue(s[Len(s)])

\* Number(text): white space is trimmed, the empty text is 0, a decimal integer with
\* an optional sign is its value, and every other text is NaN.
StringToNumber(s) ==
  LET t == TrimEnd(TrimStart(s))
  IN IF t = <<>> THEN NumberOf(0)
     ELSE IF IsDigits(t) THEN NumberOf(DigitsValue(t))
     ELSE IF Head(t) = "-" /\ IsDigits(Tail(t)) THEN NumberOf(0 - DigitsValue(Tail(t)))
     ELSE IF Head(t) = "+" /\ IsDigits(Tail(t)) THEN NumberOf(DigitsValue(Tail(t)))
     ELSE NaN

\* Number(v): a boolean is 1 or 0, null is 0, undefined is NaN, an array is the
\* number of its joined text, and so are a function and Object.prototype (NaN).
JSNumber(v) ==
  CASE v.t = "number" -> NumberOf(v.n)
    [] v.t = "string" -> StringToNumber(v.s)
    [] v.t = "boolean" -> NumberOf(IF v.b THEN 1 ELSE 0)
    [] v.t = "null" -> NumberOf(0)
    [] v.t = "array" -> StringToNumber(ArrayJoin(v.a))
    [] v.t \in {"function", "object"} -> StringToNumber(JSString(v))
    [] OTHER -> NaN

(***************************************************************************)
(* The settings types and their defaults.                                  *)
(***************************************************************************)
Operators == {"equals", "contains", "exists", "includes", "greater", "less"}
\* An operator name that stored data may hold and the evaluator does not recognise.
UnknownOperator == "matches"
FilterTypes == {"string", "number", "array", "boolean"}

DEFAULT_SETTINGS ==
  [filters |-> <<>>, hideMatches |-> TRUE, combineWithAnd |-> FALSE,
   enableExplorerFilter |-> TRUE]

\* The filter the settings tab's add button appends.
NewFilter == [key |-> "", value |-> <<>>, operator |-> "equals", type |-> "string"]

(***************************************************************************)
(* Frontmatter: the file cache's frontmatter object, or none.  An object   *)
(* is the sequence of its own key/value pairs in insertion order.          *)
(***************************************************************************)
NoFrontmatter == [present |-> FALSE, fields |-> <<>>]
Frontmatter(fields) == [present |-> TRUE, fields |-> fields]

\* The names of the properties a frontmatter object inherits from
\* Object.prototype.
ObjectPrototypeKeys ==
  { "constructor", "__defineGetter__", "__defineSetter__",
    "hasOwnProperty", "__lookupGetter__", "__lookupSetter__",
    "isPrototypeOf", "propertyIsEnumerable", "toString", "valueOf",
    "toLocaleString", "__proto__" }

\* Object.prototype[key]: a built-in function (Object under "constructor"), and
\* under "__proto__" the prototype of the frontmatter object, Object.prototype.
ObjectPrototype(key) ==
  CASE key = "constructor" ->
         Fn(<<"O", "b", "j", "e", "c", "t">>)
    [] key = "__defineGetter__" ->
         Fn(<<"_", "_", "d", "e", "f", "i", "n", "e", "G", "e", "t", "t", "e",
              "r", "_", "_">>)
    [] key = "__defineSetter__" ->
         Fn(<<"_", "_", "d", "e", "f", "i", "n", "e", "S", "e", "t", "t", "e",
              "r", "_", "_">>)
    [] key = "hasOwnProperty" ->
         Fn(<<"h", "a", "s", "O", "w", "n", "P", "r", "o", "p", "e", "r", "t",
              "y">>)
    [] key = "__lookupGetter__" ->
         Fn(<<"_", "_", "l", "o", "o", "k", "u", "p", "G", "e", "t", "t", "e",
              "r", "_", "_">>)
    [] key = "__lookupSetter__" ->
         Fn(<<"_", "_", "l", "o", "o", "k", "u", "p", "S", "e", "t", "t", "e",
              "r", "_", "_">>)
    [] key = "isPrototypeOf" ->
         Fn(<<"i", "s", "P", "r", "o", "t", "o", "t", "y", "p", "e", "O",
              "f">>)
    [] key = "propertyIsEnumerable" ->
         Fn(<<"p", "r", "o", "p", "e", "r", "t", "y", "I", "s", "E", "n", "u",
              "m", "e", "r", "a", "b", "l", "e">>)
    [] key = "toString" ->
         Fn(<<"t", "o", "S", "t", "r", "i", "n", "g">>)
    [] key = "valueOf" ->
         Fn(<<"v", "a", "l", "u", "e", "O", "f">>)
    [] key = "toLocaleString" ->
         Fn(<<"t", "o", "L", "o", "c", "a", "l", "e", "S", "t", "r", "i", "n",
              "g">>)
    [] key = "__proto__" -> ObjectPrototypeObject

\* metadata[key]: the value of the object's own pair with that key, else the
\* property of that name inherited from Object.prototype, else undefined.
GetProperty(metadata, key) ==
  IF \E i \in 1..Len(metadata) : metadata[i].key = key
  THEN metadata[CHOOSE i \in 1..Len(metadata) : metadata[i].key = key].value
  ELSE IF key \in ObjectPrototypeKeys
  THEN ObjectPrototype(key)
  ELSE Undefined

\* The property name a missing key field reads: metadata[undefined].
MissingKey == "undefined"

(***************************************************************************)
(* evaluateFilter(metadata, filter).                                       *)
(***************************************************************************)
\* value === undefined || value === null
isMissing(value) == value.t = "undefined" \/ value.t = "null"

\* operator 'exists': value !== undefined && value !== null
caseExists(value) == value.t # "undefined" /\ value.t # "null"

\* case 'equals'
caseEquals(value, filter) ==
  IF filter.type = "number"
  THEN StrictEqualsNumber(JSNumber(value), StringToNumber(filter.value))
  ELSE IF filter.type = "boolean"
  THEN toLowerCase(JSString(value)) = toLowerCase(filter.value)
  ELSE toLowerCase(JSString(value)) = toLowerCase(filter.value)

\* case 'contains'
caseContains(value, filter) ==
  includes(toLowerCase(JSString(value)), toLowerCase(filter.value))

\* case 'includes'
caseIncludes(value, filter) ==
  IF value.t = "array"
  THEN \E i \in 1..Len(value.a) :
         toLowerCase(JSString(value.a[i])) = toLowerCase(filter.value)
  ELSE FALSE

\* case 'greater'
caseGreater(value, filter) ==
  GreaterNumber(JSNumber(value), StringToNumber(filter.value))

\* case 'less'
caseLess(value, filter) ==
  LessNumber(JSNumber(value), StringToNumber(filter.value))

evaluateFilter(metadata, filter) ==
  LET value == GetProperty(metadata, filter.key)
  IN IF filter.operator = "exists"
     THEN caseExists(value)
     ELSE IF isMissing(value)
     THEN FALSE
     ELSE CASE filter.operator = "equals" -> caseEquals(value, filter)
            [] filter.operator = "contains" -> caseContains(value, filter)
            [] filter.operator = "includes" -> caseIncludes(value, filter)
            [] filter.operator = "greater" -> caseGreater(value, filter)
            [] filter.operator = "less" -> caseLess(value, filter)
            [] OTHER -> FALSE

(***************************************************************************)
(* evaluateFilter on a filter as stored data may hold it: the value field  *)
(* is any JavaScript value (undefined when the field is missing), and a    *)
(* missing key field reads the property named "undefined".  The result is  *)
(* "true", "false", or "TypeError" when the call throws.                   *)
(***************************************************************************)
BooleanOutcome(b) == IF b THEN "true" ELSE "false"

\* filter.value.toLowerCase() throws unless filter.value is a string.
toLowerCaseThrows(v) == v.t # "string"

\* The stored filter as a filter with a text value, when its value is a string.
TextFilter(f) == [key |-> f.key, value |-> f.value.s, operator |-> f.operator, type |-> f.type]

evaluateStoredFilter(metadata, f) ==
  LET value == GetProperty(metadata, f.key)
  IN IF f.operator = "exists"
     THEN BooleanOutcome(caseExists(value))
     ELSE IF isMissing(value)
     THEN "false"
     ELSE CASE f.operator = "equals" ->
                 IF f.type = "number"
                 THEN BooleanOutcome(StrictEqualsNumber(JSNumber(value), JSNumber(f.value)))
                 ELSE IF toLowerCaseThrows(f.value) THEN "TypeError"
                 ELSE BooleanOutcome(caseEquals(value, TextFilter(f)))
            [] f.operator = "contains" ->
                 IF toLowerCaseThrows(f.value) THEN "TypeError"
                 ELSE BooleanOutcome(caseContains(value, TextFilter(f)))
            [] f.operator = "includes" ->
                 \* some() calls back once per element: no element, no call
                 IF value.t = "array" /\ value.a # <<>>
                 THEN IF toLowerCaseThrows(f.value) THEN "TypeError"
                      ELSE BooleanOutcome(caseIncludes(value, TextFilter(f)))
                 ELSE "false"
            [] f.operator = "greater" ->
                 BooleanOutcome(GreaterNumber(JSNumber(value), JSNumber(f.value)))
            [] f.operator = "less" ->
                 BooleanOutcome(LessNumber(JSNumber(value), JSNumber(f.value)))
            [] OTHER -> "false"

(***************************************************************************)
(* shouldFileBeVisible(file), with the file's frontmatter and the plugin's *)
(* settings as parameters.                                                 *)
(***************************************************************************)
\* Mutant of everyFilter: stops after the first filter.
everyFilter_FirstOnly(metadata, filters) ==
  filters = <<>> \/ evaluateFilter(metadata, filters[1])

\* settings.filters.every(f => evaluateFilter(metadata, f))
everyFilter(metadata, filters) ==
  \A i \in 1..Len(filters) : evaluateFilter(metadata, filters[i])
\* settings.filters.some(f => evaluateFilter(metadata, f))
someFilter(metadata, filters) ==
  \E i \in 1..Len(filters) : evaluateFilter(metadata, filters[i])

\* Mutant of shouldFileBeVisible: a file without frontmatter is evaluated as an
\* empty object instead of taking the hideMatches default.
shouldFileBeVisible_NoDefault(metadata, s) ==
  LET matches == IF s.combineWithAnd THEN everyFilter(metadata.fields, s.filters)
                 ELSE someFilter(metadata.fields, s.filters)
  IN IF s.hideMatches THEN ~matches ELSE matches

\* Mutant of shouldFileBeVisible: hideMatches is not applied to the match result.
shouldFileBeVisible_NoInversion(metadata, s) ==
  IF ~metadata.present
  THEN s.hideMatches
  ELSE IF s.combineWithAnd THEN everyFilter(metadata.fields, s.filters)
       ELSE someFilter(metadata.fields, s.filters)

\* Mutant of shouldFileBeVisible: an empty filter list matches nothing.
shouldFileBeVisible_EmptyNoMatch(metadata, s) ==
  IF ~metadata.present
  THEN s.hideMatches
  ELSE LET matches == s.filters # <<>> /\
                        (IF s.combineWithAnd THEN everyFilter(metadata.fields, s.filters)
                         ELSE someFilter(metadata.fields, s.filters))
       IN IF s.hideMatches THEN ~matches ELSE matches

shouldFileBeVisible(metadata, s) ==
  IF ~metadata.present
  THEN s.hideMatches
  ELSE LET matchesAll == everyFilter(metadata.fields, s.filters)
           matchesAny == someFilter(metadata.fields, s.filters)
           matches == IF s.combineWithAnd THEN matchesAll ELSE matchesAny
       IN IF s.hideMatches THEN ~matches ELSE matches

(***************************************************************************)
(* The visible set applyFiltersToExplorer builds over the vault's markdown *)
(* files; files maps each path to the file's frontmatter.                  *)
(***************************************************************************)
\* Mutant of visibleFiles: a file without frontmatter is always added.
visibleFiles_NoMetadataVisible(files, s) ==
  {path \in DOMAIN files :
     LET metadata == files[path]
     IN IF ~metadata.present
        THEN TRUE
        ELSE LET matchesAll == everyFilter(metadata.fields, s.filters)
                 matchesAny == someFilter(metadata.fields, s.filters)
                 matches == IF s.combineWithAnd THEN matchesAll ELSE matchesAny
                 shouldBeVisible == IF s.hideMatches THEN ~matches ELSE matches
             IN shouldBeVisible}

visibleFiles(files, s) ==
  {path \in DOMAIN files :
     LET metadata == files[path]
     IN IF ~metadata.present
        THEN s.hideMatches
        ELSE LET matchesAll == everyFilter(metadata.fields, s.filters)
                 matchesAny == someFilter(metadata.fields, s.filters)
                 matches == IF s.combineWithAnd THEN matchesAll ELSE matchesAny
                 shouldBeVisible == IF s.hideMatches THEN ~matches ELSE matches
             IN shouldBeVisible}

(***************************************************************************)
(* filterByMetadata(metadata): the filter it derives from the object's     *)
(* first key/value pair.                                                   *)
(***************************************************************************)
\* Object.keys(metadata)[0]; undefined for an object without keys.
firstKey(metadata) == IF metadata = <<>> THEN MissingKey ELSE metadata[1].key

\* value.toString() throws a TypeError on undefined and on null.
quickFilterThrows(metadata) == isMissing(GetProperty(metadata, firstKey(metadata)))

\* Mutant of quickFilter: a number is treated like any other scalar.
quickFilter_NumberAsText(metadata) ==
  LET key == firstKey(metadata)
      value == GetProperty(metadata, key)
  IN [key |-> key,
      value |-> JSString(value),
      operator |-> IF value.t = "array" THEN "includes"
                   ELSE IF value.t = "number" THEN "contains"
                   ELSE IF value.t = "boolean" THEN "equals" ELSE "contains",
      type |-> IF value.t = "array" THEN "array"
               ELSE IF value.t = "number" THEN "string"
               ELSE IF value.t = "boolean" THEN "boolean" ELSE "string"]

quickFilter(metadata) ==
  LET key == firstKey(metadata)
      value == GetProperty(metadata, key)
  IN [key |-> key,
      value |-> JSString(value),
      operator |-> IF value.t = "array" THEN "includes"
                   ELSE IF value.t = "number" THEN "equals"
                   ELSE IF value.t = "boolean" THEN "equals" ELSE "contains",
      type |-> IF value.t = "array" THEN "array"
               ELSE IF value.t = "number" THEN "number"
               ELSE IF value.t = "boolean" THEN "boolean" ELSE "string"]

(***************************************************************************)
(* DiscreteSettingTab.display(): the type cell of a row corrects the type  *)
(* of a filter whose operator has no type select; a row keeps the filter   *)
(* object (by identity) and the controls it was rendered with.             *)
(***************************************************************************)
hasTypeSelect(f) == f.operator \notin {"exists", "greater", "less", "contains"}
hasValueInput(f) == f.operator # "exists"

\* The control of the value cell: none, a select of true and false for type
\* boolean, otherwise an input of type number or text.
valueControl(f) ==
  IF ~hasValueInput(f) THEN "none"
  ELSE IF f.type = "boolean" THEN "select"
  ELSE IF f.type = "number" THEN "number"
  ELSE "text"

\* Mutant of displayFilter: the row is rendered without the correction.
displayFilter_NoCorrection(f) == f

displayFilter(f) ==
  IF hasTypeSelect(f) THEN f
  ELSE IF f.operator \in {"greater", "less"} THEN [f EXCEPT !.type = "number"]
  ELSE IF f.operator = "contains" THEN [f EXCEPT !.type = "string"]
  ELSE f

\* settings after display() has rendered every row.
displaySettings(s) ==
  [s EXCEPT !.filters = [i \in 1..Len(s.filters) |-> displayFilter(s.filters[i])]]

\* The tab after display(): the enable toggle shows the setting, one row per filter.
displayTab(s, ids) ==
  [shown |-> TRUE,
   enableToggle |-> s.enableExplorerFilter,
   rows |-> [i \in 1..Len(s.filters) |->
               [id |-> ids[i],
                typeSelect |-> hasTypeSelect(s.filters[i]),
                valueControl |-> valueControl(displayFilter(s.filters[i]))]]]

(***************************************************************************)
(* Array.prototype.splice(index, 1) and push, on the filter list and on    *)
(* the identities of its elements alike.                                   *)
(***************************************************************************)
\* index counts from 0; an index at or past the end removes nothing.
splice(list, index) ==
  IF index < Len(list)
  THEN SubSeq(list, 1, index) \o SubSeq(list, index + 2, Len(list))
  ELSE list

\* filter.<field> = v on the filter object id, wherever the list holds it.
setFilterField(s, ids, id, field, v) ==
  [s EXCEPT !.filters = [i \in 1..Len(s.filters) |->
                           IF ids[i] = id THEN [s.filters[i] EXCEPT ![field] = v]
                           ELSE s.filters[i]]]

(***************************************************************************)
(* The style element(s) with id metadata-filter-styles in document.head:   *)
(* a sequence, each element the set of paths its rules hide.               *)
(***************************************************************************)
\* The keys of the explorer view's fileItems: the vault's markdown files and
\* an image.
FileItems(vault) == DOMAIN vault \cup {"img.png"}

\* fileExplorer.view.fileItems: undefined, or an object with those keys.
NoFileItems == [present |-> FALSE, keys |-> {}]
ExplorerViews(vault) == {NoFileItems, [present |-> TRUE, keys |-> FileItems(vault)]}

\* getElementById(...) finds the first such element; remove() takes it out.
removeStyle(styles) == IF styles = <<>> THEN styles ELSE Tail(styles)

\* The paths that get a hide rule: the file items not in the visible set, and
\* none when the view has no fileItems.
hideRules(files, s, fileItems) ==
  IF fileItems.present
  THEN {path \in fileItems.keys : path \notin visibleFiles(files, s)}
  ELSE {}

\* Mutant of applyFiltersToExplorer: the old style element is left in place.
applyFiltersToExplorer_KeepsOld(styles, files, s, explorer, fileItems) ==
  IF ~explorer THEN styles
  ELSE Append(styles, hideRules(files, s, fileItems))

\* applyFiltersToExplorer(): nothing without a file explorer leaf; otherwise the
\* first old style element is removed and a new one is appended.
applyFiltersToExplorer(styles, files, s, explorer, fileItems) ==
  IF ~explorer THEN styles
  ELSE Append(removeStyle(styles), hideRules(files, s, fileItems))

\* The guard of the host-event handlers.
filteringActive(s) == s.enableExplorerFilter /\ Len(s.filters) > 0

\* The callback handed to onLayoutReady, and the body of the 'modify' and
\* 'file-explorer:create' handlers.
applyIfActive(styles, files, s, explorer, fileItems) ==
  IF filteringActive(s)
  THEN applyFiltersToExplorer(styles, files, s, explorer, fileItems)
  ELSE styles

\* Mutant of settingsAfterRejectedSave: the settings are rolled back to the saved ones.
settingsAfterRejectedSave_RollBack(s, saved) == saved

\* saveSettings() has no catch: a rejected save leaves this.settings as it is.
settingsAfterRejectedSave(s, saved) == s

(***************************************************************************)
(* loadSettings(): Object.assign({}, DEFAULT_SETTINGS, await loadData()).  *)
(* What loadData() returns is null (present false) or an object with some  *)
(* of the fields (has) and their values (val).                             *)
(***************************************************************************)
SettingsFields == {"filters", "hideMatches", "combineWithAnd", "enableExplorerFilter"}

NoData == [present |-> FALSE, has |-> {}, val |-> DEFAULT_SETTINGS]

\* Mutant of loadSettings: the defaults are assigned last and win.
loadSettings_DefaultsWin(data) == DEFAULT_SETTINGS

loadSettings(data) ==
  [field \in SettingsFields |->
     IF data.present /\ field \in data.has THEN data.val[field]
     ELSE DEFAULT_SETTINGS[field]]

(***************************************************************************)
(* Input sets.                                                             *)
(***************************************************************************)
Texts ==
  { <<>>,
    <<"f", "o", "o">>,
    <<"F", "o", "o">>,
    <<"O", "O">>,
    <<"a", "b", "c">>,
    <<"0">>,
    <<"1">>,
    <<"2">>,
    <<"-", "1">>,
    <<" ", "1">>,
    <<"1", "\n">>,
    <<"t", "r", "u", "e">>,
    <<"T", "r", "u", "e">>,
    <<"f", "o", "o", ",", "1">>,
    <<"U+03A3", "U+0391", "U+03A3">>,
    <<"U+03C3", "U+03B1", "U+03C3">>,
    <<"U+0391", "U+03A3", "U+2019", "U+0391">> }

Numbers == {0 - 1} \cup 0..MaxNum

ArrayElements ==
  {Str(<<"f", "o", "o">>), Str(<<"F", "o", "o">>), Num(1), Null,
   Str(<<"U+03A3", "U+0391", "U+03A3">>), Arr(<<Str(<<"f", "o", "o">>)>>)}

SeqsUpTo(S, n) == UNION {[1..k -> S] : k \in 0..n}

Values ==
  {Str(s) : s \in Texts} \cup {Num(n) : n \in Numbers} \cup {Bool(b) : b \in BOOLEAN}
    \cup {Null} \cup {Arr(a) : a \in SeqsUpTo(ArrayElements, MaxArrayLen)}

PolicyValues ==
  {Str(<<"f", "o", "o">>), Str(<<"F", "o", "o">>), Str(<<"a", "b", "c">>), Num(1), Num(2),
   Bool(TRUE), Null, Arr(<<Str(<<"f", "o", "o">>), Num(1)>>)}

\* The keys of a filter: two that frontmatters hold, and one that every
\* frontmatter object inherits.
FilterKeys == {"k", "j", "constructor"}

\* The frontmatter objects: no frontmatter, the empty object, one pair under "k",
\* and a pair under "j" followed by one under "k".
Frontmatters ==
  {NoFrontmatter, Frontmatter(<<>>)}
    \cup {Frontmatter(<<[key |-> "k", value |-> v]>>) : v \in Values}
    \cup {Frontmatter(<<[key |-> "j", value |-> Num(1)], [key |-> "k", value |-> v]>>) :
            v \in PolicyValues}

Filters ==
  [key : FilterKeys, value : Texts, operator : Operators \cup {UnknownOperator},
   type : FilterTypes]

\* The inputs of the visibility policy: filter lists over text filters on "k".
PolicyFilters ==
  {f \in Filters : f.key = "k" /\ f.type = "string"
                     /\ f.value \in {<<"f", "o", "o">>, <<"1">>}}

PolicyFrontmatters ==
  {NoFrontmatter, Frontmatter(<<>>)}
    \cup {Frontmatter(<<[key |-> "k", value |-> v]>>) : v \in PolicyValues}

PolicySettings ==
  [filters : SeqsUpTo(PolicyFilters, MaxFilters), hideMatches : BOOLEAN,
   combineWithAnd : BOOLEAN, enableExplorerFilter : {TRUE}]

\* Filters as stored data may hold them: the value a text, missing, or a number.
StoredFilters ==
  [key : FilterKeys \cup {MissingKey},
   value : {Str(<<"f", "o", "o">>), Str(<<>>), Undefined, Num(1)},
   operator : Operators \cup {UnknownOperator},
   type : FilterTypes]

StoredFrontmatters ==
  (PolicyFrontmatters \ {NoFrontmatter}) \cup {Frontmatter(<<[key |-> "k", value |-> Arr(<<>>)]>>)}

\* What data.json may hold: nothing, or any of the fields with any value.
StoredData ==
  {NoData} \cup
  [present : {TRUE}, has : SUBSET SettingsFields,
   val : [filters : {<<>>, <<NewFilter>>}, hideMatches : BOOLEAN,
          combineWithAnd : BOOLEAN, enableExplorerFilter : BOOLEAN]]

\* The path of the file under evaluation.
NotePath == "note.md"

(***************************************************************************)
(* State: the inputs of one call and its result.                           *)
(***************************************************************************)
VARIABLES
  settings,     \* this.settings
  frontmatter,  \* metadataCache.getFileCache(file)?.frontmatter of the file
  filter,       \* the filter handed to evaluateFilter
  stored,       \* the stored filter handed to evaluateFilter
  called,       \* the function that has been applied, "none" before the call
  ret,          \* what it returned
  outcome,      \* how a call that may throw ended
  data,         \* what loadData() returns
  files,        \* vault.getMarkdownFiles() with each file's cached frontmatter
  filterIds,    \* the identity of each filter object of settings.filters
  persisted,    \* the settings data.json holds
  saving,       \* the handlers suspended at await saveSettings(), oldest first
  tab,          \* the settings tab as display() rendered it
  styles,       \* the metadata-filter-styles elements of document.head
  explorer,     \* a file-explorer leaf exists
  fileItems,    \* the leaf's view.fileItems
  ready,        \* the onLayoutReady callback has run
  microtasks,   \* the continuations of resolved awaits, in the order they will run
  lastEvent,    \* what the last step did
  events,       \* how many events and save completions have been handled
  loaded        \* the plugin is loaded: onunload has not run

evalVars == <<frontmatter, filter, stored, called, ret, outcome, data>>

pluginVars ==
  <<files, filterIds, persisted, saving, tab, styles, explorer, fileItems, ready,
    microtasks, lastEvent, events, loaded>>

vars == <<settings, evalVars, pluginVars>>

\* A well-formed stored filter, for the calls that take none.
NoStoredFilter ==
  [key |-> "", value |-> Str(<<>>), operator |-> "equals", type |-> "string"]

\* The run of ribbon toggles since onload: whether nothing but toggleFiltering
\* has run, the enable flag onload found, and how many toggles have completed.
NoRun == [only |-> FALSE, initial |-> FALSE, completed |-> 0]

\* An entry of lastEvent: the handler, how far it got, the index a remove was
\* given and the file a quick filter was given, whether
\* applyFiltersToExplorer read the settings in this step, read settings that
\* data.json does not hold and replaced a style element, and the run of
\* ribbon toggles this step continues or ends.
Event(op, phase, index, path, applied, readUnsaved) ==
  [op |-> op, phase |-> phase, index |-> index, path |-> path,
   applied |-> applied, readUnsaved |-> readUnsaved,
   replaced |-> applied /\ styles # <<>>,
   run |-> IF op = "toggleFiltering" /\ phase \in {"start", "saved", "applied", "done"}
                /\ lastEvent.run.only
           THEN [lastEvent.run EXCEPT
                   !.completed = IF phase = "done" THEN @ + 1 ELSE @]
           ELSE NoRun]

NoEvent ==
  [op |-> "none", phase |-> "none", index |-> 0, path |-> "",
   applied |-> FALSE, readUnsaved |-> FALSE, replaced |-> FALSE, run |-> NoRun]

\* The settings tab before it is first opened.
ClosedTab == [shown |-> FALSE, enableToggle |-> FALSE, rows |-> <<>>]

\* The plugin as onload leaves it over an empty vault.
PluginIdle ==
  /\ files = <<>>
  /\ filterIds = <<>>
  /\ persisted = DEFAULT_SETTINGS
  /\ saving = <<>>
  /\ tab = ClosedTab
  /\ styles = <<>>
  /\ explorer = FALSE
  /\ fileItems = NoFileItems
  /\ ready = TRUE
  /\ microtasks = <<>>
  /\ lastEvent = NoEvent
  /\ events = 0
  /\ loaded = TRUE

InitEval ==
  /\ PluginIdle
  /\ called = "none"
  /\ ret = FALSE
  /\ outcome = "none"
  /\ \/ /\ frontmatter \in Frontmatters
        /\ filter \in Filters
        /\ stored = NoStoredFilter
        /\ settings = DEFAULT_SETTINGS
        /\ data = NoData
     \/ /\ frontmatter \in PolicyFrontmatters
        /\ filter = NewFilter
        /\ stored = NoStoredFilter
        /\ settings \in PolicySettings
        /\ data = NoData
     \/ /\ frontmatter \in StoredFrontmatters
        /\ filter = NewFilter
        /\ stored \in StoredFilters
        /\ settings = DEFAULT_SETTINGS
        /\ data = NoData
     \/ /\ frontmatter = NoFrontmatter
        /\ filter = NewFilter
        /\ stored = NoStoredFilter
        /\ settings = DEFAULT_SETTINGS
        /\ data \in StoredData

\* evaluateFilter(metadata, filter); every caller passes a frontmatter object.
CallEvaluateFilter ==
  /\ called = "none"
  /\ frontmatter.present
  /\ called' = "evaluateFilter"
  /\ ret' = evaluateFilter(frontmatter.fields, filter)
  /\ UNCHANGED <<settings, frontmatter, filter, stored, outcome, data, pluginVars>>

CallShouldFileBeVisible ==
  /\ called = "none"
  /\ called' = "shouldFileBeVisible"
  /\ ret' = shouldFileBeVisible(frontmatter, settings)
  /\ UNCHANGED <<settings, frontmatter, filter, stored, outcome, data, pluginVars>>

\* The loop of applyFiltersToExplorer over a vault that holds the one file.
CallVisibleFiles ==
  /\ called = "none"
  /\ called' = "visibleFiles"
  /\ ret' = (NotePath \in visibleFiles([p \in {NotePath} |-> frontmatter], settings))
  /\ UNCHANGED <<settings, frontmatter, filter, stored, outcome, data, pluginVars>>

\* evaluateFilter(metadata, filter) on the stored filter.
CallEvaluateStoredFilter ==
  /\ called = "none"
  /\ frontmatter.present
  /\ called' = "evaluateStoredFilter"
  /\ outcome' = evaluateStoredFilter(frontmatter.fields, stored)
  /\ UNCHANGED <<settings, frontmatter, filter, stored, ret, data, pluginVars>>

\* loadSettings() on what loadData() returns, in onload, before any filter is
\* evaluated.
CallLoadSettings ==
  /\ called = "none"
  /\ frontmatter = NoFrontmatter
  /\ filter = NewFilter
  /\ stored = NoStoredFilter
  /\ settings = DEFAULT_SETTINGS
  /\ called' = "loadSettings"
  /\ settings' = loadSettings(data)
  /\ UNCHANGED <<frontmatter, filter, stored, ret, outcome, data, pluginVars>>

\* filterByMetadata(metadata)'s filter, evaluated on the same metadata.
CallQuickFilterMatches ==
  /\ called = "none"
  /\ frontmatter.present
  /\ ~quickFilterThrows(frontmatter.fields)
  /\ called' = "quickFilterMatches"
  /\ ret' = evaluateFilter(frontmatter.fields, quickFilter(frontmatter.fields))
  /\ UNCHANGED <<settings, frontmatter, filter, stored, outcome, data, pluginVars>>

NextEval ==
  \/ CallEvaluateFilter
  \/ CallShouldFileBeVisible
  \/ CallVisibleFiles
  \/ CallEvaluateStoredFilter
  \/ CallLoadSettings
  \/ CallQuickFilterMatches

SpecEval == InitEval /\ [][NextEval]_vars

(***************************************************************************)
(* The plugin: the settings tab's handlers, the file-menu item, the ribbon *)
(* icon and the host's events.  A handler runs up to await saveSettings()  *)
(* in one step; saveData is handed the settings as they are at the call.   *)
(* When saveData resolves the handler's continuation is queued, and the    *)
(* queued continuations run in order before the host dispatches the next   *)
(* event.  applyFiltersToExplorer has no await of its own, so a handler    *)
(* that awaits it runs it at once and queues what follows the await.       *)
(***************************************************************************)
\* What the user can type into a key input, a text input and a number input,
\* and the options of the select of a boolean filter.
KeyInputs == {"k"}
ValueInputs == {<<"f", "o", "o">>}
NumberInputs == {<<"1">>}
BooleanOptions == {<<"t", "r", "u", "e">>, <<"f", "a", "l", "s", "e">>}

\* What a value control can report on a change.
valuesOf(control) ==
  CASE control = "select" -> BooleanOptions
    [] control = "number" -> NumberInputs
    [] control = "text" -> ValueInputs
    [] OTHER -> {}

\* The vault: b.md has no frontmatter, the other files one frontmatter each.
Vault ==
  [path \in {"a.md", "b.md", "c.md", "d.md", "e.md"} |->
     CASE path = "a.md" -> Frontmatter(<<[key |-> "k", value |-> Str(<<"f", "o", "o">>)]>>)
       [] path = "b.md" -> NoFrontmatter
       [] path = "c.md" -> Frontmatter(<<[key |-> "j", value |-> Num(1)],
                                         [key |-> "k", value |-> Str(<<"f", "o", "o">>)]>>)
       [] path = "d.md" -> Frontmatter(<<[key |-> "k", value |-> Null]>>)
       [] path = "e.md" -> Frontmatter(<<>>)]

\* A vault whose files have the four shapes of first value filterByMetadata
\* tells apart: a text, a number, a list and a boolean.
QuickVault ==
  [path \in {"a.md", "c.md", "f.md", "g.md"} |->
     CASE path = "a.md" -> Vault["a.md"]
       [] path = "c.md" -> Vault["c.md"]
       [] path = "f.md" ->
            Frontmatter(<<[key |-> "k",
                           value |-> Arr(<<Str(<<"a", "b", "c">>), Num(1)>>)]>>)
       [] path = "g.md" -> Frontmatter(<<[key |-> "k", value |-> Bool(TRUE)]>>)]

\* The filters data.json may hold from an earlier session.
StoredRules ==
  {<<>>,
   <<[key |-> "k", value |-> <<"f", "o", "o">>, operator |-> "contains",
      type |-> "string"],
     [key |-> "j", value |-> <<"1">>, operator |-> "equals", type |-> "number"]>>}

\* onload over a vault, data.json holding one of the filter lists rules:
\* loadSettings() merges data.json over the defaults and the handlers are
\* registered.  onLayoutReady runs its callback at once when the layout is
\* ready and keeps it for later when it is not.
onload(vault, rules) ==
  /\ persisted \in {[DEFAULT_SETTINGS EXCEPT !.enableExplorerFilter = e,
                                             !.filters = r] :
                      e \in BOOLEAN, r \in rules}
  /\ settings = persisted
  /\ files = vault
  /\ filterIds = [i \in 1..Len(settings.filters) |-> i]
  /\ saving = <<>>
  /\ microtasks = <<>>
  /\ tab = ClosedTab
  /\ explorer \in BOOLEAN
  /\ fileItems = IF explorer THEN [present |-> TRUE, keys |-> FileItems(vault)]
                 ELSE NoFileItems
  /\ ready \in BOOLEAN
  /\ styles = IF ready
              THEN applyIfActive(<<>>, files, settings, explorer, fileItems)
              ELSE <<>>
  /\ lastEvent = [NoEvent EXCEPT !.run = [only |-> TRUE,
                                          initial |-> settings.enableExplorerFilter,
                                          completed |-> 0]]
  /\ events = 0
  /\ loaded = TRUE
  /\ frontmatter = NoFrontmatter
  /\ filter = NewFilter
  /\ stored = NoStoredFilter
  /\ called = "plugin"
  /\ ret = FALSE
  /\ outcome = "none"
  /\ data = NoData

Init == onload(Vault, StoredRules)

\* onload over the vault of the four shapes, data.json holding no filter.
InitQuick == onload(QuickVault, {<<>>})

\* A handler suspended at await saveSettings(): what its continuation captured.
Task(kind, id, index, value, snapshot) ==
  [kind |-> kind, id |-> id, index |-> index, value |-> value, snapshot |-> snapshot]

\* A queued continuation: of the await of saveSettings() ("handler"), or of the
\* await of applyFiltersToExplorer(), which a this.display() follows ("display")
\* or the trigger of 'file-explorer:refresh' ("refresh").
Microtask(task, step) == [task |-> task, step |-> step]

\* The identity of a filter object created now: one no live reference holds.
FreshId ==
  LET used == {filterIds[i] : i \in 1..Len(filterIds)}
                \cup {tab.rows[i].id : i \in 1..Len(tab.rows)}
                \cup {saving[i].id : i \in 1..Len(saving)}
                \cup {microtasks[i].task.id : i \in 1..Len(microtasks)}
  IN CHOOSE n \in 1..(Cardinality(used) + 1) :
       n \notin used /\ \A m \in 1..(n - 1) : m \in used

\* One more event or save completion is handled, up to the bound.
Handled == events < MaxEvents /\ events' = events + 1

\* The host dispatches an event: no continuation is waiting to run.
Dispatched == microtasks = <<>> /\ Handled

\* The handler mutated the settings to s1 and awaits saveData(s1).
Suspend(kind, id, index, value, path, s1) ==
  /\ Len(saving) < MaxPending
  /\ settings' = s1
  /\ saving' = Append(saving, Task(kind, id, index, value, s1))
  /\ lastEvent' = Event(kind, "start", index, path, FALSE, FALSE)

\* The settings tab is opened: display().
OpenSettings ==
  /\ loaded
  /\ Dispatched
  /\ settings' = displaySettings(settings)
  /\ tab' = displayTab(settings, filterIds)
  /\ lastEvent' = Event("display", "done", 0, "", FALSE, FALSE)
  /\ UNCHANGED <<evalVars, loaded, files, filterIds, persisted, saving, styles, explorer,
                 fileItems, ready, microtasks>>

\* The enable toggle is clicked: onChange(value) with the toggle's new state.
ToggleEnable ==
  /\ loaded
  /\ Dispatched
  /\ tab.shown
  /\ LET value == ~tab.enableToggle
     IN /\ Suspend("enable", 0, 0, value, "",
                   [settings EXCEPT !.enableExplorerFilter = value])
        /\ tab' = [tab EXCEPT !.enableToggle = value]
  /\ UNCHANGED <<evalVars, loaded, files, filterIds, persisted, styles, explorer,
                 fileItems, ready, microtasks>>

\* The hide-matching toggle is clicked; it shows settings.hideMatches.
ToggleHideMatches ==
  /\ loaded
  /\ Dispatched
  /\ tab.shown
  /\ LET value == ~settings.hideMatches
     IN Suspend("hideMatches", 0, 0, value, "", [settings EXCEPT !.hideMatches = value])
  /\ UNCHANGED <<evalVars, loaded, files, filterIds, persisted, tab, styles, explorer,
                 fileItems, ready, microtasks>>

\* The combine-with-AND toggle is clicked; it shows settings.combineWithAnd.
ToggleCombineWithAnd ==
  /\ loaded
  /\ Dispatched
  /\ tab.shown
  /\ LET value == ~settings.combineWithAnd
     IN Suspend("combineWithAnd", 0, 0, value, "",
                [settings EXCEPT !.combineWithAnd = value])
  /\ UNCHANGED <<evalVars, loaded, files, filterIds, persisted, tab, styles, explorer,
                 fileItems, ready, microtasks>>

\* The key input of a row changes.
KeyChange ==
  /\ loaded
  /\ Dispatched
  /\ tab.shown
  /\ \E i \in 1..Len(tab.rows), key \in KeyInputs :
       Suspend("key", tab.rows[i].id, 0, FALSE, "",
               setFilterField(settings, filterIds, tab.rows[i].id, "key", key))
  /\ UNCHANGED <<evalVars, loaded, files, filterIds, persisted, tab, styles, explorer,
                 fileItems, ready, microtasks>>

\* An operator button of a row is clicked.
OperatorClick ==
  /\ loaded
  /\ Dispatched
  /\ tab.shown
  /\ \E i \in 1..Len(tab.rows), op \in Operators :
       Suspend("operator", tab.rows[i].id, 0, FALSE, "",
               setFilterField(settings, filterIds, tab.rows[i].id, "operator", op))
  /\ UNCHANGED <<evalVars, loaded, files, filterIds, persisted, tab, styles, explorer,
                 fileItems, ready, microtasks>>

\* The type select of a row changes; only rows rendered with one have it.
TypeChange ==
  /\ loaded
  /\ Dispatched
  /\ tab.shown
  /\ \E i \in 1..Len(tab.rows), type \in FilterTypes :
       /\ tab.rows[i].typeSelect
       /\ Suspend("type", tab.rows[i].id, 0, FALSE, "",
                  setFilterField(settings, filterIds, tab.rows[i].id, "type", type))
  /\ UNCHANGED <<evalVars, loaded, files, filterIds, persisted, tab, styles, explorer,
                 fileItems, ready, microtasks>>

\* The value control of a row changes: the select or the input the row was
\* rendered with reports its value.
ValueChange ==
  /\ loaded
  /\ Dispatched
  /\ tab.shown
  /\ \E i \in 1..Len(tab.rows) :
       \E value \in valuesOf(tab.rows[i].valueControl) :
         Suspend("value", tab.rows[i].id, 0, FALSE, "",
                 setFilterField(settings, filterIds, tab.rows[i].id, "value", value))
  /\ UNCHANGED <<evalVars, loaded, files, filterIds, persisted, tab, styles, explorer,
                 fileItems, ready, microtasks>>

\* The remove button of a row is clicked: splice(index, 1) with the index the
\* row was rendered with.
RemoveClick ==
  /\ loaded
  /\ Dispatched
  /\ tab.shown
  /\ \E i \in 1..Len(tab.rows) :
       /\ Suspend("remove", tab.rows[i].id, i - 1, FALSE, "",
                  [settings EXCEPT !.filters = splice(settings.filters, i - 1)])
       /\ filterIds' = splice(filterIds, i - 1)
  /\ UNCHANGED <<evalVars, loaded, files, persisted, tab, styles, explorer,
                 fileItems, ready, microtasks>>

\* The plus button is clicked: a new filter is pushed.
AddClick ==
  /\ loaded
  /\ Dispatched
  /\ tab.shown
  /\ Len(settings.filters) < MaxRules
  /\ Suspend("add", FreshId, 0, FALSE, "",
             [settings EXCEPT !.filters = Append(settings.filters, NewFilter)])
  /\ filterIds' = Append(filterIds, FreshId)
  /\ UNCHANGED <<evalVars, loaded, files, persisted, tab, styles, explorer,
                 fileItems, ready, microtasks>>

\* "Filter by metadata" is clicked on a file whose cache has a frontmatter.
FilterByMetadata ==
  \E path \in DOMAIN files :
    /\ loaded
    /\ Dispatched
    /\ files[path].present
    /\ IF quickFilterThrows(files[path].fields)
       THEN /\ lastEvent' = Event("filterByMetadata", "threw", 0, path, FALSE, FALSE)
            /\ UNCHANGED <<settings, filterIds, saving>>
       ELSE /\ Len(settings.filters) < MaxRules
            /\ Suspend("filterByMetadata", FreshId, 0, FALSE, path,
                       [settings EXCEPT !.filters =
                          Append(settings.filters, quickFilter(files[path].fields))])
            /\ filterIds' = Append(filterIds, FreshId)
    /\ UNCHANGED <<evalVars, loaded, files, persisted, tab, styles, explorer,
                   fileItems, ready, microtasks>>

\* The ribbon icon is clicked: toggleFiltering().
ToggleFiltering ==
  /\ loaded
  /\ Dispatched
  /\ Suspend("toggleFiltering", 0, 0, FALSE, "",
             [settings EXCEPT !.enableExplorerFilter = ~settings.enableExplorerFilter])
  /\ UNCHANGED <<evalVars, loaded, files, filterIds, persisted, tab, styles, explorer,
                 fileItems, ready, microtasks>>

\* What the handlers do once the save has resolved.
removesStyleAfterSave(task, s) ==
  \/ task.kind = "enable" /\ ~task.value
  \/ task.kind = "hideMatches" /\ s.enableExplorerFilter
  \/ task.kind = "toggleFiltering" /\ ~s.enableExplorerFilter

\* Mutant of appliesAfterSave: toggleFiltering never re-applies the filters.
appliesAfterSave_RibbonNeverApplies(task, s) ==
  IF task.kind = "enable" THEN task.value
  ELSE IF task.kind = "remove" THEN TRUE
  ELSE IF task.kind \in {"filterByMetadata", "toggleFiltering"} THEN FALSE
  ELSE s.enableExplorerFilter

\* The handler calls, and awaits, applyFiltersToExplorer().
appliesAfterSave(task, s) ==
  IF task.kind = "enable" THEN task.value
  ELSE IF task.kind = "remove" THEN TRUE
  ELSE IF task.kind = "filterByMetadata" THEN FALSE
  ELSE IF task.kind = "toggleFiltering"
  THEN s.enableExplorerFilter /\ Len(s.filters) > 0
  ELSE s.enableExplorerFilter

displaysAfterSave(task) == task.kind \in {"operator", "type", "remove", "add"}

\* The handler ends with workspace.trigger('file-explorer:refresh'), the ribbon's
\* one after updateRibbonIcon().
refreshesAfterSave(task) ==
  task.kind \in {"enable", "hideMatches", "combineWithAnd", "toggleFiltering"}

stylesAfterSave(task, s) ==
  LET old == IF removesStyleAfterSave(task, s) THEN removeStyle(styles) ELSE styles
  IN IF appliesAfterSave(task, s)
     THEN applyFiltersToExplorer(old, files, s, explorer, fileItems)
     ELSE old

\* saveData resolves for the oldest suspended handler: data.json holds what it
\* was handed and the handler's continuation is queued.
SaveSucceeds ==
  /\ Handled
  /\ saving # <<>>
  /\ persisted' = Head(saving).snapshot
  /\ saving' = Tail(saving)
  /\ microtasks' = Append(microtasks, Microtask(Head(saving), "handler"))
  /\ lastEvent' = Event(Head(saving).kind, "saved", Head(saving).index, "", FALSE, FALSE)
  /\ UNCHANGED <<settings, evalVars, loaded, files, filterIds, tab, styles, explorer,
                 fileItems, ready>>

\* The first queued continuation is a handler's code after await
\* saveSettings(): it runs to its end, or to its await of
\* applyFiltersToExplorer() when a statement follows that (a display(), or
\* the trigger of 'file-explorer:refresh'); a handler whose last statement is
\* that await ends with it.
HandlerResumes ==
  /\ microtasks # <<>>
  /\ Head(microtasks).step = "handler"
  /\ LET task == Head(microtasks).task
         awaits == appliesAfterSave(task, settings)
         applied == awaits /\ explorer
         readUnsaved == applied /\ settings # task.snapshot
     IN /\ styles' = stylesAfterSave(task, settings)
        /\ IF (displaysAfterSave(task) \/ refreshesAfterSave(task)) /\ awaits
           THEN /\ microtasks' =
                     Append(Tail(microtasks),
                            Microtask(task, IF displaysAfterSave(task) THEN "display"
                                            ELSE "refresh"))
                /\ lastEvent' = Event(task.kind, "applied", task.index, "", applied,
                                      readUnsaved)
                /\ UNCHANGED <<settings, tab>>
           ELSE /\ microtasks' = Tail(microtasks)
                /\ lastEvent' = Event(task.kind, "done", task.index, "", applied,
                                      readUnsaved)
                /\ settings' = IF displaysAfterSave(task) THEN displaySettings(settings)
                               ELSE settings
                /\ tab' = IF displaysAfterSave(task) THEN displayTab(settings, filterIds)
                          ELSE tab
  /\ UNCHANGED <<evalVars, loaded, files, filterIds, persisted, saving, explorer,
                 fileItems, ready, events>>

\* The first queued continuation is the this.display() that follows a
\* handler's await of applyFiltersToExplorer().
HandlerDisplays ==
  /\ microtasks # <<>>
  /\ Head(microtasks).step = "display"
  /\ settings' = displaySettings(settings)
  /\ tab' = displayTab(settings, filterIds)
  /\ microtasks' = Tail(microtasks)
  /\ lastEvent' = Event(Head(microtasks).task.kind, "done", Head(microtasks).task.index,
                        "", FALSE, FALSE)
  /\ UNCHANGED <<evalVars, loaded, files, filterIds, persisted, saving, styles, explorer,
                 fileItems, ready, events>>

\* The first queued continuation is what follows a toggle handler's await of
\* applyFiltersToExplorer(): updateRibbonIcon() in toggleFiltering, and the
\* trigger of 'file-explorer:refresh', to which nothing listens.
HandlerRefreshes ==
  /\ microtasks # <<>>
  /\ Head(microtasks).step = "refresh"
  /\ microtasks' = Tail(microtasks)
  /\ lastEvent' = Event(Head(microtasks).task.kind, "done", Head(microtasks).task.index,
                        "", FALSE, FALSE)
  /\ UNCHANGED <<settings, evalVars, loaded, files, filterIds, persisted, saving, tab,
                 styles, explorer, fileItems, ready, events>>

\* saveData rejects: the await throws and the handler ends there.
SaveFails ==
  /\ Handled
  /\ saving # <<>>
  /\ settings' = settingsAfterRejectedSave(settings, persisted)
  /\ lastEvent' = Event(Head(saving).kind, "failed", Head(saving).index, "", FALSE, FALSE)
  /\ saving' = Tail(saving)
  /\ UNCHANGED <<evalVars, loaded, files, filterIds, persisted, tab, styles, explorer,
                 fileItems, ready, microtasks>>

\* The layout becomes ready and the host runs the callback onload handed to
\* onLayoutReady; the callback is not among the registered events that an
\* unload detaches.
LayoutReady ==
  /\ Dispatched
  /\ ~ready
  /\ ready' = TRUE
  /\ styles' = applyIfActive(styles, files, settings, explorer, fileItems)
  /\ lastEvent' = Event("onLayoutReady", "done", 0, "",
                        explorer /\ filteringActive(settings),
                        explorer /\ filteringActive(settings) /\ settings # persisted)
  /\ UNCHANGED <<settings, evalVars, loaded, files, filterIds, persisted, saving, tab,
                 explorer, fileItems, microtasks>>

\* 'file-explorer:create': the explorer leaf comes to exist, its view with or
\* without fileItems, and the handler runs.
ExplorerCreate ==
  /\ loaded
  /\ Dispatched
  /\ ~explorer
  /\ explorer' = TRUE
  /\ fileItems' \in ExplorerViews(files)
  /\ styles' = applyIfActive(styles, files, settings, TRUE, fileItems')
  /\ lastEvent' = Event("file-explorer:create", "done", 0, "",
                        filteringActive(settings),
                        filteringActive(settings) /\ settings # persisted)
  /\ UNCHANGED <<settings, evalVars, loaded, files, filterIds, persisted, saving, tab,
                 ready, microtasks>>

\* 'layout-change'.
LayoutChange ==
  /\ loaded
  /\ Dispatched
  /\ styles' = IF explorer
               THEN applyIfActive(styles, files, settings, explorer, fileItems)
               ELSE styles
  /\ lastEvent' = Event("layout-change", "done", 0, "",
                        explorer /\ filteringActive(settings),
                        explorer /\ filteringActive(settings) /\ settings # persisted)
  /\ UNCHANGED <<settings, evalVars, loaded, files, filterIds, persisted, saving, tab,
                 explorer, fileItems, ready, microtasks>>

\* The vault's 'modify'.
Modify ==
  /\ loaded
  /\ Dispatched
  /\ styles' = applyIfActive(styles, files, settings, explorer, fileItems)
  /\ lastEvent' = Event("modify", "done", 0, "",
                        explorer /\ filteringActive(settings),
                        explorer /\ filteringActive(settings) /\ settings # persisted)
  /\ UNCHANGED <<settings, evalVars, loaded, files, filterIds, persisted, saving, tab,
                 explorer, fileItems, ready, microtasks>>

\* onunload: the style element is removed; the host detaches the registered
\* events, the ribbon icon and the settings tab.
Unload ==
  /\ loaded
  /\ Dispatched
  /\ loaded' = FALSE
  /\ styles' = removeStyle(styles)
  /\ lastEvent' = Event("onunload", "done", 0, "", FALSE, FALSE)
  /\ UNCHANGED <<settings, evalVars, files, filterIds, persisted, saving, tab, explorer,
                 fileItems, ready, microtasks>>

Next ==
  \/ OpenSettings
  \/ ToggleEnable
  \/ ToggleHideMatches
  \/ ToggleCombineWithAnd
  \/ KeyChange
  \/ OperatorClick
  \/ TypeChange
  \/ ValueChange
  \/ RemoveClick
  \/ AddClick
  \/ FilterByMetadata
  \/ ToggleFiltering
  \/ SaveSucceeds
  \/ HandlerResumes
  \/ HandlerDisplays
  \/ HandlerRefreshes
  \/ SaveFails
  \/ LayoutReady
  \/ ExplorerCreate
  \/ LayoutChange
  \/ Modify
  \/ Unload

Spec == Init /\ [][Next]_vars

SpecQuick == InitQuick /\ [][Next]_vars

(***************************************************************************)
(* Notions the properties are stated with.                                 *)
(***************************************************************************)
\* The letter of a character whatever its case: the small letter of a capital
\* letter, sigma for the final form of the small sigma.
CaseFolded(c) ==
  IF c = "U+03C2" THEN "U+03C3"
  ELSE IF c \in UpperSet THEN LowerCaseOf[c]
  ELSE c

\* Two characters are the same letter in either case, or the same character.
SameIgnoringCase(c, d) == CaseFolded(c) = CaseFolded(d)

\* The text holds a capital sigma that toLowerCase() maps to the final form.
HasFinalSigma(s) == \E i \in 1..Len(s) : s[i] = "U+03A3" /\ isFinalSigma(s, i)

\* Two texts are equal ignoring letter case.
EqualIgnoringCase(s1, s2) ==
  Len(s1) = Len(s2) /\ \A i \in 1..Len(s1) : SameIgnoringCase(s1[i], s2[i])

\* The frontmatter holds a pair under the filter's key whose value is not null.
KeyPresentNotNull ==
  \E i \in 1..Len(frontmatter.fields) :
    frontmatter.fields[i].key = filter.key /\ frontmatter.fields[i].value.t # "null"

\* The value stored under the filter's key, when KeyPresentNotNull.
RecordValue ==
  frontmatter.fields[CHOOSE i \in 1..Len(frontmatter.fields) :
                       frontmatter.fields[i].key = filter.key].value

\* The match result behind a visibility decision: visible = hideMatches ? !matches : matches.
MatchesOfRet == IF settings.hideMatches THEN ~ret ELSE ret

(***************************************************************************)
(* C1: for a file with no frontmatter the visibility decision, of          *)
(* shouldFileBeVisible and of the explorer's loop, equals hideMatches,     *)
(* for every filter list and every value of combineWithAnd.                *)
(***************************************************************************)
C1_AbsentMetadataDefault ==
  (called \in {"shouldFileBeVisible", "visibleFiles"} /\ ~frontmatter.present)
    => ret = settings.hideMatches

C1_Witness ==
  /\ called = "shouldFileBeVisible"
  /\ ~frontmatter.present
  /\ Len(settings.filters) = 2
  /\ settings.combineWithAnd
  /\ ~settings.hideMatches
  /\ ret = FALSE

(***************************************************************************)
(* C2: for a file with frontmatter, matches is the conjunction of          *)
(* evaluateFilter over the filters when combineWithAnd is true and the     *)
(* disjunction when it is false; with two filters of which exactly one     *)
(* matches, matches is false under AND and true under OR.                  *)
(***************************************************************************)
C2_AndOrCombination ==
  (called = "shouldFileBeVisible" /\ frontmatter.present) =>
    LET n == Len(settings.filters)
        m(i) == evaluateFilter(frontmatter.fields, settings.filters[i])
    IN /\ settings.combineWithAnd => (MatchesOfRet <=> \A i \in 1..n : m(i))
       /\ ~settings.combineWithAnd => (MatchesOfRet <=> \E i \in 1..n : m(i))
       /\ (n = 2 /\ m(1) /\ ~m(2)) => (MatchesOfRet <=> ~settings.combineWithAnd)

C2_Witness ==
  /\ called = "shouldFileBeVisible"
  /\ frontmatter.present
  /\ Len(settings.filters) = 2
  /\ evaluateFilter(frontmatter.fields, settings.filters[1])
  /\ ~evaluateFilter(frontmatter.fields, settings.filters[2])
  /\ settings.combineWithAnd
  /\ ~MatchesOfRet

(***************************************************************************)
(* C3: for a file with frontmatter, the visibility under hideMatches =     *)
(* true is the negation of the visibility under hideMatches = false, the   *)
(* other settings being equal.                                             *)
(***************************************************************************)
C3_HideShowInversion ==
  (called = "shouldFileBeVisible" /\ frontmatter.present) =>
    ret = ~shouldFileBeVisible(frontmatter,
                               [settings EXCEPT !.hideMatches = ~settings.hideMatches])

C3_Witness ==
  /\ called = "shouldFileBeVisible"
  /\ frontmatter.present
  /\ Len(settings.filters) = 1
  /\ settings.hideMatches
  /\ ret = FALSE
  /\ shouldFileBeVisible(frontmatter, [settings EXCEPT !.hideMatches = FALSE])

(***************************************************************************)
(* C4: with an empty filter list and a file that has frontmatter,          *)
(* matchesAll is true and matchesAny is false, matches equals              *)
(* combineWithAnd, and visible equals hideMatches XOR combineWithAnd.      *)
(***************************************************************************)
C4_EmptyFilterList ==
  (called \in {"shouldFileBeVisible", "visibleFiles"} /\ frontmatter.present
     /\ settings.filters = <<>>) =>
    /\ everyFilter(frontmatter.fields, settings.filters)
    /\ ~someFilter(frontmatter.fields, settings.filters)
    /\ MatchesOfRet = settings.combineWithAnd
    /\ ret = (settings.hideMatches # settings.combineWithAnd)

C4_Witness ==
  /\ called = "shouldFileBeVisible"
  /\ frontmatter.present
  /\ settings.filters = <<>>
  /\ settings.combineWithAnd
  /\ settings.hideMatches
  /\ ret = FALSE

(***************************************************************************)
(* C5: evaluateFilter with operator exists returns true exactly when the   *)
(* frontmatter holds a value under the filter's key that is not null,      *)
(* whatever the filter's type and value; false when the key is absent or   *)
(* its value is null.  The code does not satisfy this: metadata[key] also  *)
(* reads the properties the frontmatter object inherits, so exists is true *)
(* for the key "constructor" on a frontmatter that does not hold it.       *)
(***************************************************************************)
C5_ExistsIgnoresTypeAndValue ==
  (called = "evaluateFilter" /\ filter.operator = "exists") => ret = KeyPresentNotNull

\* The same for the keys that name no property of Object.prototype.
ExistsIgnoresTypeAndValueButInherited ==
  (/\ called = "evaluateFilter"
   /\ filter.operator = "exists"
   /\ filter.key \notin ObjectPrototypeKeys)
    => ret = KeyPresentNotNull

(***************************************************************************)
(* C6: for every operator other than exists, and every type and value of   *)
(* the filter, evaluateFilter returns false when the key is absent from    *)
(* the frontmatter or its value is null.  The code does not satisfy this:  *)
(* under the key "constructor" a frontmatter that does not hold the key    *)
(* reads the inherited function Object, whose string form contains the     *)
(* empty text.                                                             *)
(***************************************************************************)
C6_MissingKeyNeverMatches ==
  (called = "evaluateFilter" /\ filter.operator # "exists" /\ ~KeyPresentNotNull)
    => ret = FALSE

\* The same for the keys that name no property of Object.prototype.
MissingKeyNeverMatchesButInherited ==
  (/\ called = "evaluateFilter"
   /\ filter.operator # "exists"
   /\ ~KeyPresentNotNull
   /\ filter.key \notin ObjectPrototypeKeys)
    => ret = FALSE

(***************************************************************************)
(* C7: equals with type string, array or boolean returns true exactly when *)
(* the string form of the record value and the filter's value are equal    *)
(* ignoring letter case.  The code does not satisfy this: toLowerCase()    *)
(* lowers a capital sigma that ends a word to the final form of the small  *)
(* sigma and any other one to the plain small sigma, so two texts that     *)
(* differ in case only can lower to different texts.                       *)
(***************************************************************************)
C7_EqualsIgnoresCase ==
  (called = "evaluateFilter" /\ filter.operator = "equals"
     /\ filter.type \in {"string", "array", "boolean"} /\ KeyPresentNotNull)
    => ret = EqualIgnoringCase(JSString(RecordValue), filter.value)

\* The same where toLowerCase() produces no final sigma.
EqualsIgnoresCaseButFinalSigma ==
  (called = "evaluateFilter" /\ filter.operator = "equals"
     /\ filter.type \in {"string", "array", "boolean"} /\ KeyPresentNotNull
     /\ ~HasFinalSigma(JSString(RecordValue)) /\ ~HasFinalSigma(filter.value))
    => ret = EqualIgnoringCase(JSString(RecordValue), filter.value)

(***************************************************************************)
(* Numeric operands, as the properties of equals/number, greater and less  *)
(* speak of them: a number, or a text that spells a decimal integer.  The  *)
(* empty text, a boolean and an array are not numeric.                     *)
(***************************************************************************)
IsNumericText(s) ==
  LET t == TrimEnd(TrimStart(s))
  IN \/ IsDigits(t)
     \/ (t # <<>> /\ Head(t) \in {"-", "+"} /\ IsDigits(Tail(t)))

IsNumericValue(v) == v.t = "number" \/ (v.t = "string" /\ IsNumericText(v.s))

\* The number a numeric operand denotes.
DenotedByText(s) == StringToNumber(s).n
DenotedByValue(v) == IF v.t = "number" THEN v.n ELSE DenotedByText(v.s)

(***************************************************************************)
(* C8: equals with type number returns true only when the record value and *)
(* the filter's value denote the same number; a non-numeric record value   *)
(* (non-numeric text, empty text, a boolean, a list) never equals any      *)
(* filter value.  The code does not satisfy this: Number("") is 0,         *)
(* Number(true) is 1 and Number([]) is 0.                                  *)
(***************************************************************************)
C8_NumberEqualsOnlySameNumber ==
  (called = "evaluateFilter" /\ filter.operator = "equals" /\ filter.type = "number"
     /\ KeyPresentNotNull) =>
    /\ ret => /\ IsNumericValue(RecordValue)
              /\ IsNumericText(filter.value)
              /\ DenotedByValue(RecordValue) = DenotedByText(filter.value)
    /\ ~IsNumericValue(RecordValue) => ~ret

(***************************************************************************)
(* C9: greater and less compare the numeric forms of the record value and  *)
(* the filter's value strictly, and return false whenever either operand   *)
(* is non-numeric, including an empty filter value and a boolean or list   *)
(* record value.  The code does not satisfy this: Number("") is 0,         *)
(* Number(true) is 1 and Number([]) is 0.                                  *)
(***************************************************************************)
C9_StrictNumericComparison ==
  (called = "evaluateFilter" /\ filter.operator \in {"greater", "less"}
     /\ KeyPresentNotNull) =>
    ret = (/\ IsNumericValue(RecordValue)
           /\ IsNumericText(filter.value)
           /\ IF filter.operator = "greater"
              THEN DenotedByValue(RecordValue) > DenotedByText(filter.value)
              ELSE DenotedByValue(RecordValue) < DenotedByText(filter.value))

(***************************************************************************)
(* C10: includes returns true exactly when the record value is an array    *)
(* and one of its elements has a string form equal, ignoring case, to the  *)
(* filter's value; it returns false for every value that is not an array.  *)
(* The code does not satisfy the first part: an element and a filter value *)
(* that differ in case only can lower to different texts, see C7.          *)
(***************************************************************************)
C10_IncludesRequiresList ==
  (called = "evaluateFilter" /\ filter.operator = "includes") =>
    ret = (/\ KeyPresentNotNull
           /\ RecordValue.t = "array"
           /\ \E i \in 1..Len(RecordValue.a) :
                EqualIgnoringCase(JSString(RecordValue.a[i]), filter.value))

\* The same where toLowerCase() produces no final sigma, and the second part
\* as it stands.
IncludesRequiresListButFinalSigma ==
  (called = "evaluateFilter" /\ filter.operator = "includes") =>
    /\ (KeyPresentNotNull /\ RecordValue.t = "array"
          /\ ~HasFinalSigma(filter.value)
          /\ \A i \in 1..Len(RecordValue.a) : ~HasFinalSigma(JSString(RecordValue.a[i])))
         => ret = \E i \in 1..Len(RecordValue.a) :
                    EqualIgnoringCase(JSString(RecordValue.a[i]), filter.value)
    /\ ~(KeyPresentNotNull /\ RecordValue.t = "array") => ~ret

(***************************************************************************)
(* C11: contains returns true exactly when the string form of the record   *)
(* value contains the filter's value as a substring ignoring case, for a   *)
(* record value of any shape and whatever the filter's declared type.  The *)
(* code does not satisfy this: a record text and a filter value that       *)
(* differ in case only can lower to different texts, see C7.               *)
(***************************************************************************)
\* sub occurs in text at some offset, letters compared ignoring case.
ContainsIgnoringCase(text, sub) ==
  \E off \in 0..(Len(text) - Len(sub)) :
    \A i \in 1..Len(sub) : SameIgnoringCase(text[off + i], sub[i])

C11_ContainsIgnoresCaseAndType ==
  (called = "evaluateFilter" /\ filter.operator = "contains" /\ KeyPresentNotNull)
    => ret = ContainsIgnoringCase(JSString(RecordValue), filter.value)

\* The same where toLowerCase() produces no final sigma.
ContainsIgnoresCaseButFinalSigma ==
  (called = "evaluateFilter" /\ filter.operator = "contains" /\ KeyPresentNotNull
     /\ ~HasFinalSigma(JSString(RecordValue)) /\ ~HasFinalSigma(filter.value))
    => ret = ContainsIgnoringCase(JSString(RecordValue), filter.value)

(***************************************************************************)
(* C12: evaluateFilter is total: for every frontmatter object and every    *)
(* stored filter, malformed ones included, it returns a boolean and never  *)
(* throws; an unrecognised operator yields false.  The code does not       *)
(* satisfy this: filter.value.toLowerCase() throws a TypeError when the    *)
(* stored value is missing or not text.                                    *)
(***************************************************************************)
C12_EvaluateFilterIsTotal ==
  called = "evaluateStoredFilter" =>
    /\ outcome \in {"true", "false"}
    /\ stored.operator \notin Operators => outcome = "false"
(***************************************************************************)
(* Notions the properties of the plugin are stated with.                   *)
(***************************************************************************)
\* The last step was the given phase of the given handler.
LastWas(op, phase) == lastEvent.op = op /\ lastEvent.phase = phase

\* The operator and type the quick filter is to infer for a value.
InferredFor(value) ==
  CASE value.t = "array" -> <<"includes", "array">>
    [] value.t = "number" -> <<"equals", "number">>
    [] value.t = "boolean" -> <<"equals", "boolean">>
    [] OTHER -> <<"contains", "string">>

\* No handler is suspended in a save or waits to go on after one.
NoneSuspended == saving = <<>> /\ microtasks = <<>>

\* The text the quick filter is to hold for a value: the text itself, the
\* digits of a number, true or false, and the elements of a list joined by commas
\* (a null in a list adds no text).
RECURSIVE TextOf(_)
TextOf(value) ==
  CASE value.t = "string" -> value.s
    [] value.t = "number" -> NumberToString(value.n)
    [] value.t = "boolean" ->
         IF value.b THEN <<"t", "r", "u", "e">> ELSE <<"f", "a", "l", "s", "e">>
    [] value.t = "array" ->
         IF value.a = <<>> THEN <<>>
         ELSE IF Len(value.a) = 1 THEN TextOf(value.a[1])
         ELSE TextOf(value.a[1]) \o <<",">> \o TextOf(Arr(Tail(value.a)))
    [] OTHER -> <<>>

\* The three flags of the settings.
FlagsOf(s) == <<s.hideMatches, s.combineWithAnd, s.enableExplorerFilter>>

\* C13: filterByMetadata appends exactly one filter to the list, built from the
\* first key/value pair of the file's frontmatter (the pair's key, the text of
\* its value) with the operator and type inferred from the value (list:
\* includes/array, number: equals/number, boolean: equals/boolean, otherwise
\* contains/string), and leaves the filters before it and the three flags as
\* they were; its completion changes nothing more.
C13_QuickFilterAppendsInferred ==
  [][/\ (lastEvent'.op = "filterByMetadata" /\ lastEvent'.phase = "start") =>
          LET pair == files[lastEvent'.path].fields[1]
              n == Len(settings.filters)
              added == settings'.filters[n + 1]
          IN /\ Len(settings'.filters) = n + 1
             /\ SubSeq(settings'.filters, 1, n) = settings.filters
             /\ added.key = pair.key
             /\ added.value = TextOf(pair.value)
             /\ <<added.operator, added.type>> = InferredFor(pair.value)
             /\ FlagsOf(settings') = FlagsOf(settings)
     /\ (lastEvent'.op = "filterByMetadata" /\ lastEvent'.phase = "done") =>
          settings' = settings]_vars

\* A quick filter on a list was just appended behind one on a boolean.
C13_Witness ==
  /\ LastWas("filterByMetadata", "start")
  /\ lastEvent.path = "f.md"
  /\ settings.filters =
       <<[key |-> "k", value |-> <<"t", "r", "u", "e">>, operator |-> "equals",
          type |-> "boolean"],
         [key |-> "k", value |-> <<"a", "b", "c", ",", "1">>, operator |-> "includes",
          type |-> "array"]>>

\* The handlers that mutate the configuration.
MutationOps ==
  {"add", "remove", "key", "operator", "type", "value", "filterByMetadata",
   "hideMatches", "combineWithAnd", "enable", "toggleFiltering"}

\* The markdown files the installed style elements hide.
HiddenInExplorer ==
  {path \in DOMAIN files : \E i \in 1..Len(styles) : path \in styles[i]}

\* The markdown files the visibility policy hides under the settings s.
PolicyHidden(s) == {path \in DOMAIN files : ~shouldFileBeVisible(files[path], s)}

\* C14: when a handler that mutates the configuration (add, remove, update,
\* quick-filter add, a toggle) has completed with explorer filtering enabled
\* and an explorer present, the files hidden in the explorer are those the
\* visibility policy hides under the in-memory settings.
C14_MutationReappliesFilters ==
  (/\ lastEvent.phase = "done"
   /\ lastEvent.op \in MutationOps
   /\ settings.enableExplorerFilter
   /\ explorer)
    => HiddenInExplorer = PolicyHidden(settings)

\* The same, for every mutation but the quick-filter add and the ribbon toggle,
\* when the explorer view has its fileItems.
TabMutationReappliesFilters ==
  (/\ lastEvent.phase = "done"
   /\ lastEvent.op \in MutationOps \ {"filterByMetadata", "toggleFiltering"}
   /\ settings.enableExplorerFilter
   /\ explorer
   /\ fileItems.present)
    => HiddenInExplorer = PolicyHidden(settings)

\* Some installed style element holds a hide rule.
HideRulesInstalled == \E i \in 1..Len(styles) : styles[i] # {}

\* C15: while enableExplorerFilter is false and no handler is suspended in a
\* save, no hide rules are installed, whatever edits, ribbon toggles and host
\* events came before.
C15_NoRulesWhileDisabled ==
  (~settings.enableExplorerFilter /\ NoneSuspended) => ~HideRulesInstalled

\* C16: no run of applyFiltersToExplorer reads settings that differ from what
\* has been saved, host-event runs during a suspended save included.
C16_ApplyReadsSavedSettings == ~lastEvent.readUnsaved

\* The list new is the list old without its element at the 0-based index i,
\* the later elements moved down by one in their order.
DeletedAt(old, new, i) ==
  /\ Len(new) = Len(old) - 1
  /\ \A j \in 1..Len(new) : new[j] = IF j <= i THEN old[j] ELSE old[j + 1]

\* C17: a remove at a valid index deletes exactly that element and shifts the
\* later ones down by one in their order; a remove at an out-of-range index is
\* reported to the caller as a failure and leaves the list unchanged.
C17_RemoveAtIndex ==
  [][(lastEvent'.op = "remove" /\ lastEvent'.phase \in {"start", "threw"}) =>
       IF lastEvent'.index < Len(settings.filters)
       THEN /\ lastEvent'.phase = "start"
            /\ DeletedAt(settings.filters, settings'.filters, lastEvent'.index)
       ELSE /\ lastEvent'.phase = "threw"
            /\ settings'.filters = settings.filters]_vars

\* What the remove handler does do: at an out-of-range index it goes on to the
\* save without a failure, the list unchanged.
RemoveDeletesOrIgnores ==
  [][(lastEvent'.op = "remove" /\ lastEvent'.phase \in {"start", "threw"}) =>
       /\ lastEvent'.phase = "start"
       /\ IF lastEvent'.index < Len(settings.filters)
          THEN DeletedAt(settings.filters, settings'.filters, lastEvent'.index)
          ELSE settings'.filters = settings.filters]_vars

\* The operator of the filter is paired with the type it mandates.
Coupled(f) ==
  /\ f.operator \in {"greater", "less"} => f.type = "number"
  /\ f.operator = "contains" => f.type = "string"

\* C18: when an operator update has completed, every filter of the in-memory
\* list whose operator is greater or less has type number and every filter
\* whose operator is contains has type string.
C18_OperatorChangeCouplesType ==
  LastWas("operator", "done") =>
    \A i \in 1..Len(settings.filters) : Coupled(settings.filters[i])

\* An operator update to greater has completed on a filter that was saved
\* with type string, and the filter now has type number.
C18_Witness ==
  /\ LastWas("operator", "done")
  /\ Len(settings.filters) >= 1
  /\ Len(persisted.filters) >= 1
  /\ settings.filters[1].operator = "greater"
  /\ persisted.filters[1].operator = "greater"
  /\ persisted.filters[1].type = "string"
  /\ settings.filters[1].type = "number"

\* C19: whenever a configuration handler has completed, the persisted settings
\* equal the in-memory settings, each filter's type field included.
C19_PersistedEqualsInMemory ==
  (lastEvent.phase = "done" /\ lastEvent.op \in MutationOps) => persisted = settings

\* C20: a step in which a save fails ends the awaiting handler there (the
\* failure is the handler's outcome, its continuation does not run: no style
\* element and no row is touched) and leaves the in-memory settings, to which the
\* handler's mutation was made, and the persisted settings as they were.
C20_FailedSaveKeepsMutation ==
  [][lastEvent'.phase = "failed" =>
       /\ saving # <<>>
       /\ lastEvent'.op = Head(saving).kind
       /\ settings' = settings
       /\ persisted' = persisted
       /\ styles' = styles
       /\ tab' = tab]_vars

\* The save of an add has failed: the new filter is in memory and not persisted.
C20_Witness ==
  /\ LastWas("add", "failed")
  /\ Len(settings.filters) = Len(persisted.filters) + 1
  /\ settings.filters[Len(settings.filters)] = NewFilter

\* C21: after loadSettings every field the persisted object holds has the
\* persisted value and every field it lacks has its default; when nothing was
\* persisted the settings are the defaults, with an empty filter list and
\* hideMatches true.
C21_LoadMergesDefaults ==
  called = "loadSettings" =>
    /\ \A field \in SettingsFields :
         settings[field] = IF data.present /\ field \in data.has
                           THEN data.val[field] ELSE DEFAULT_SETTINGS[field]
    /\ ~data.present =>
         /\ settings = DEFAULT_SETTINGS
         /\ settings.filters = <<>>
         /\ settings.hideMatches

\* A load of data that holds hideMatches false and no filters field.
C21_Witness ==
  /\ called = "loadSettings"
  /\ data.present
  /\ data.has = {"hideMatches"}
  /\ ~data.val.hideMatches
  /\ data.val.filters # <<>>
  /\ ~settings.hideMatches
  /\ settings.filters = <<>>

\* The metadata record of an item the explorer lists: the frontmatter of a
\* markdown file, none for any other item.
MetadataOf(item) == IF item \in DOMAIN files THEN files[item] ELSE NoFrontmatter

\* The rules of the style element applyFiltersToExplorer appended last.
InstalledRules == styles[Len(styles)]

\* C22: when applyFiltersToExplorer has run, every item the explorer lists has
\* a hide rule exactly when the visibility policy yields not visible for it;
\* an item without a metadata record is hidden only when hideMatches is false.
C22_HideRuleIffPolicyHides ==
  lastEvent.applied =>
    \A item \in fileItems.keys :
      (item \in InstalledRules) <=> ~shouldFileBeVisible(MetadataOf(item), settings)

\* The same for the markdown files alone.
MarkdownHideRuleIffPolicyHides ==
  lastEvent.applied =>
    \A item \in DOMAIN files \cap fileItems.keys :
      (item \in InstalledRules) <=> ~shouldFileBeVisible(MetadataOf(item), settings)

\* C23: with an empty filter list, hideMatches true and no handler suspended
\* in a save, no markdown file is hidden in the explorer, whatever
\* combineWithAnd is and whatever operations emptied or kept the list empty.
C23_EmptyListHidesNothing ==
  (settings.filters = <<>> /\ settings.hideMatches /\ NoneSuspended)
    => HiddenInExplorer = {}

\* C24: for every file and every settings, the loop of applyFiltersToExplorer
\* puts the file's path into its visible set exactly when shouldFileBeVisible
\* returns true for the file.
C24_ExplorerLoopAgreesWithPolicy ==
  called = "visibleFiles" => (ret <=> shouldFileBeVisible(frontmatter, settings))

\* The loop left a file without frontmatter out of the visible set.
C24_Witness ==
  /\ called = "visibleFiles"
  /\ ~frontmatter.present
  /\ ~settings.hideMatches
  /\ ~ret

\* C25: no step of filterByMetadata throws, whatever frontmatter the file has
\* (an empty object and a null first value included), and a step of it that
\* does not go on to completion appends nothing.
C25_QuickFilterNeverThrows ==
  [][lastEvent'.op = "filterByMetadata" =>
       /\ lastEvent'.phase # "threw"
       /\ lastEvent'.phase \notin {"start", "done"} =>
            settings'.filters = settings.filters]_vars

\* The first value of the frontmatter under evaluation.
FirstValue == frontmatter.fields[1].value

\* C26: the filter that filterByMetadata derives from a frontmatter matches
\* that frontmatter under evaluateFilter, when the first value is a text, a
\* number, a boolean or a list with one or with several elements.
C26_QuickFilterMatchesItsRecord ==
  (/\ called = "quickFilterMatches"
   /\ \/ FirstValue.t \in {"string", "number", "boolean"}
      \/ FirstValue.t = "array" /\ Len(FirstValue.a) >= 1)
    => ret

\* The same without the lists of several elements and the list [null].
QuickFilterMatchesScalarsAndSingletons ==
  (/\ called = "quickFilterMatches"
   /\ \/ FirstValue.t \in {"string", "number", "boolean"}
      \/ /\ FirstValue.t = "array"
         /\ Len(FirstValue.a) = 1
         /\ FirstValue.a[1].t # "null")
    => ret

\* The filter objects a list of identities holds.
Objects(ids) == {ids[i] : i \in 1..Len(ids)}

\* C27: every click on a row's remove button removes from the list the filter
\* object that row shows and no other, also when the row was rendered before
\* an earlier removal whose redraw has not happened.
C27_RemoveTakesTheRowsFilter ==
  [][(lastEvent'.op = "remove" /\ lastEvent'.phase = "start") =>
       Objects(filterIds') =
         Objects(filterIds) \ {tab.rows[lastEvent'.index + 1].id}]_vars

\* C28: in every reachable state at most one style element is installed, and
\* when applyFiltersToExplorer has run the installed rules are exactly the
\* hide rules of that run: no rule of an earlier run is left.
C28_OneStyleRebuiltEachRun ==
  /\ Len(styles) <= 1
  /\ lastEvent.applied => styles = <<hideRules(files, settings, fileItems)>>

\* A run of applyFiltersToExplorer has replaced a style element whose rules
\* differed from the ones it computed: the hideMatches toggle turned them over.
C28_Witness ==
  /\ LastWas("hideMatches", "applied")
  /\ lastEvent.replaced
  /\ styles = <<hideRules(files, settings, fileItems)>>
  /\ hideRules(files, settings, fileItems) #
       hideRules(files, [settings EXCEPT !.hideMatches = ~settings.hideMatches], fileItems)

\* C29: once onunload has run no hide rules are installed, also after a
\* handler that was suspended in its save at the unload has resumed.
C29_NoRulesAfterUnload == ~loaded => ~HideRulesInstalled

\* C30: when nothing but toggleFiltering has run since onload and every toggle
\* has completed, the enable flag equals the flag onload found exactly when
\* the number of completed toggles is even, and it is saved; no hide rules
\* are installed when the flag is false; and when it is true, the filter list
\* is not empty and an explorer exists, the installed rules are the hide
\* rules of the current settings, once a toggle has completed or the
\* onLayoutReady callback of onload has run.
C30_RibbonTogglesAlternate ==
  (lastEvent.run.only /\ NoneSuspended) =>
    /\ (settings.enableExplorerFilter = lastEvent.run.initial)
         <=> (lastEvent.run.completed % 2 = 0)
    /\ persisted.enableExplorerFilter = settings.enableExplorerFilter
    /\ ~settings.enableExplorerFilter => ~HideRulesInstalled
    /\ (/\ settings.enableExplorerFilter
        /\ settings.filters # <<>>
        /\ explorer
        /\ (ready \/ lastEvent.run.completed > 0))
         => styles = <<hideRules(files, settings, fileItems)>>

\* Two ribbon toggles have completed, the second one enabling: the rules are
\* installed again.
C30_Witness ==
  /\ lastEvent.run.only
  /\ lastEvent.run.completed = 2
  /\ NoneSuspended
  /\ settings.enableExplorerFilter
  /\ settings.filters # <<>>
  /\ explorer
  /\ HideRulesInstalled

=============================================================================
